---- MODULE Spec2Model ----
(***************************************************************************)
(* Model of the markdown blog of lipcoder/myweb: the GitHub content sync,  *)
(* the in-memory post cache behind a RWMutex, and the disk mirror under    *)
(* ./data (src/unnamed/part_001, lines 1-458).                             *)
(*                                                                         *)
(* Go strings are modelled as sequences of one-character symbols; "LF" is  *)
(* the line feed, "BSL" the backslash and "BQ" the backquote.  Three       *)
(* symbols stand for non-ASCII content: "eACUTE" (a valid multi-byte       *)
(* rune), "xFF" (a byte that is not valid UTF-8) and "uFFFD" (the Unicode  *)
(* replacement rune).                                                      *)
(***************************************************************************)
EXTENDS Integers, Sequences, FiniteSets, TLC

\* ------------------------------------------------------------------------
\* Bounds of the model
\* ------------------------------------------------------------------------

\* the longest string given to slugify and the longest document given to
\* extractTitle in the pure-function specifications
MaxLen == 4

\* the documents given to makeExcerpt are made of at most MaxPieces pieces
MaxPieces ==
    5

\* the bounds given to makeExcerpt are 0..MaxCut
MaxCut ==
    2

\* the longest stem of a path given to the candidate filter
MaxStem ==
    2

\* number of requests the friend-link and guestbook server is sent
MaxRequests ==
    3

\* number of comment submissions the file-based blog is sent
MaxComments ==
    2

\* number of sync passes (initial and periodic) over the life of ./data
MaxPasses == 2

\* ------------------------------------------------------------------------
\* Strings
\* ------------------------------------------------------------------------

LowerLetters ==
    {"a","b","c","d","e","f","g","h","i","j","k","l","m",
     "n","o","p","q","r","s","t","u","v","w","x","y","z"}

UpperLetters ==
    {"A","B","C","D","E","F","G","H","I","J","K","L","M",
     "N","O","P","Q","R","S","T","U","V","W","X","Y","Z"}

Digits ==
    {"0","1","2","3","4","5","6","7","8","9"}

\* byte order of the symbols (the first byte decides for the non-ASCII ones)
ByteOrder ==
    <<"LF", " ", "!", "#", "&", "-", ".", "/",
      "0","1","2","3","4","5","6","7","8","9", "<", ">",
      "A","B","C","D","E","F","G","H","I","J","K","L","M",
      "N","O","P","Q","R","S","T","U","V","W","X","Y","Z",
      "BSL", "_", "BQ",
      "a","b","c","d","e","f","g","h","i","j","k","l","m",
      "n","o","p","q","r","s","t","u","v","w","x","y","z",
      "eACUTE", "uFFFD", "xFF">>

ByteRank(c) ==
    CHOOSE i \in DOMAIN ByteOrder : ByteOrder[i] = c

\* Go's < on strings: bytewise lexicographic order
StrLess(a, b) ==
    \E k \in 1..(Len(b)) :
        /\ k <= Len(a) + 1
        /\ \A j \in 1..(k-1) : a[j] = b[j]
        /\ \/ k = Len(a) + 1
           \/ ByteRank(a[k]) < ByteRank(b[k])

ToLowerChar(c) ==
    IF c \in UpperLetters
    THEN ByteOrder[ByteRank(c) + 29]
    ELSE c

ToLower(s) ==
    [i \in 1..Len(s) |-> ToLowerChar(s[i])]

ReplaceAll(s, old, new) ==
    [i \in 1..Len(s) |-> IF s[i] = old THEN new ELSE s[i]]

\* strings.Trim(s, cutset) for a set of one-character symbols
Trim(s, cutset) ==
    LET keep == {i \in 1..Len(s) : s[i] \notin cutset}
    IN  IF keep = {} THEN <<>>
        ELSE LET lo == CHOOSE i \in keep : \A j \in keep : i <= j
                 hi == CHOOSE i \in keep : \A j \in keep : j <= i
             IN  SubSeq(s, lo, hi)

HasPrefix(s, p) ==
    /\ Len(p) <= Len(s)
    /\ SubSeq(s, 1, Len(p)) = p

HasSuffix(s, p) ==
    /\ Len(p) <= Len(s)
    /\ SubSeq(s, Len(s) - Len(p) + 1, Len(s)) = p

TrimPrefix(s, p) ==
    IF HasPrefix(s, p) THEN SubSeq(s, Len(p) + 1, Len(s)) ELSE s

TrimSuffix(s, p) ==
    IF HasSuffix(s, p) THEN SubSeq(s, 1, Len(s) - Len(p)) ELSE s

\* ------------------------------------------------------------------------
\* slugify
\* ------------------------------------------------------------------------

\* reSlugBad = [^a-zA-Z0-9\-/]+ : the symbols the expression does NOT match
SlugKept(c) ==
    c \in LowerLetters \cup UpperLetters \cup Digits \cup {"-", "/"}

reSlugBadStrip(s) ==
    SelectSeq(s, SlugKept)

slugify(s) ==
    LET s1 == Trim(ReplaceAll(s, "BSL", "/"), {"/"})
        s2 == ReplaceAll(s1, " ", "-")
        s3 == ReplaceAll(s2, "_", "-")
        s4 == reSlugBadStrip(s3)
        s5 == Trim(s4, {"-"})
        s6 == ReplaceAll(s5, "/", "-")
    IN  IF s6 = <<>> THEN <<"p","o","s","t">> ELSE ToLower(s6)

\* ------------------------------------------------------------------------
\* Post transformer: extractTitle, makeExcerpt, md.Convert
\* ------------------------------------------------------------------------

\* the regexp class \s restricted to the symbols of the model
IsSpace(c) ==
    c \in {" ", "LF"}

\* (?m)^ : the positions at which a line starts
LineStart(md, p) ==
    /\ p \in 1..Len(md)
    /\ \/ p = 1
       \/ md[p-1] = "LF"

\* the first index >= p whose symbol is not white space; Len(md)+1 if none
SkipSpace(md, p) ==
    LET rest == {i \in p..Len(md) : ~IsSpace(md[i])}
    IN  IF rest = {} THEN Len(md) + 1
        ELSE CHOOSE i \in rest : \A j \in rest : i <= j

\* the index of the end of the line holding index p (before its LF)
LineEnd(md, p) ==
    LET lfs == {i \in p..Len(md) : md[i] = "LF"}
    IN  IF lfs = {} THEN Len(md)
        ELSE (CHOOSE i \in lfs : \A j \in lfs : i <= j) - 1

\* reH1 = (?m)^\s*#\s+(.+?)\s*$ matched from line start p with a capture that
\* begins with a symbol that is not white space
H1At(md, p) ==
    LET q == SkipSpace(md, p)
    IN  /\ LineStart(md, p)
        /\ q <= Len(md)
        /\ md[q] = "#"
        /\ q + 1 <= Len(md)
        /\ IsSpace(md[q+1])
        /\ SkipSpace(md, q + 1) <= Len(md)

\* a title extraction that finds no heading
extractTitleNone(md) ==
    <<>>

\* The capture group of the leftmost match, trimmed.  When the white space
\* after the "#" runs to the end of the text the expression either does not
\* match or captures white space only: the trimmed title is empty both ways.
extractTitle(md) ==
    LET ps == {p \in 1..Len(md) : H1At(md, p)}
    IN  IF ps = {} THEN <<>>
        ELSE LET p == CHOOSE x \in ps : \A y \in ps : x <= y
                 r == SkipSpace(md, SkipSpace(md, p) + 1)
                 line == {i \in r..LineEnd(md, r) : ~IsSpace(md[i])}
                 e == CHOOSE i \in line : \A j \in line : j <= i
             IN  SubSeq(md, r, e)

\* path.Base(p) without path.Ext(p): the title of a document with no heading
BaseNoExt(p) ==
    LET slashes == {i \in 1..Len(p) : p[i] = "/"}
        b == IF slashes = {} THEN 1
             ELSE (CHOOSE i \in slashes : \A j \in slashes : j <= i) + 1
        dots == {i \in b..Len(p) : p[i] = "."}
        e == IF dots = {} THEN Len(p)
             ELSE (CHOOSE i \in dots : \A j \in dots : j <= i) - 1
    IN  SubSeq(p, b, e)

\* the start indexes of the fences "```" of md, from index p on
FenceAt(md, i) ==
    /\ i + 2 <= Len(md)
    /\ md[i] = "BQ" /\ md[i+1] = "BQ" /\ md[i+2] = "BQ"

\* reStripFences = (?s)```.*?``` : the text with every leftmost shortest
\* fenced block removed, scanning from index p
RECURSIVE StripFences(_, _)
StripFences(md, p) ==
    LET opens == {i \in p..Len(md) : FenceAt(md, i)}
    IN  IF opens = {} THEN SubSeq(md, p, Len(md))
        ELSE LET o == CHOOSE i \in opens : \A j \in opens : i <= j
                 closes == {i \in (o+3)..Len(md) : FenceAt(md, i)}
             IN  IF closes = {} THEN SubSeq(md, p, Len(md))
                 ELSE LET c == CHOOSE i \in closes : \A j \in closes : i <= j
                      IN  SubSeq(md, p, o - 1) \o StripFences(md, c + 3)

\* reStripHead = (?m)^#+\s* : index i lies in a run of "#" that begins at a
\* line start, or in the white space that follows such a run
InHeadMarker(md, i) ==
    \E p \in 1..i :
        /\ LineStart(md, p)
        /\ md[p] = "#"
        /\ LET hs == {k \in p..Len(md) : md[k] # "#"}
               h == IF hs = {} THEN Len(md) + 1
                    ELSE CHOOSE k \in hs : \A j \in hs : k <= j
           IN  i < SkipSpace(md, h)

StripHead(md) ==
    LET keep == {i \in 1..Len(md) : ~InHeadMarker(md, i)}
        F[i \in 0..Len(md)] ==
            IF i = 0 THEN <<>>
            ELSE IF i \in keep THEN Append(F[i-1], md[i]) ELSE F[i-1]
    IN  F[Len(md)]

\* strings.Join(strings.Fields(s), " ")
CollapseSpace(s) ==
    LET t == Trim(s, {" ", "LF"})
        F[i \in 0..Len(t)] ==
            IF i = 0 THEN <<>>
            ELSE IF IsSpace(t[i])
                 THEN IF IsSpace(t[i-1]) THEN F[i-1] ELSE Append(F[i-1], " ")
                 ELSE Append(F[i-1], t[i])
    IN  F[Len(t)]

\* string([]rune(s)[:n]): a byte that is not valid UTF-8 decodes to U+FFFD
RuneOf(c) ==
    IF c = "xFF" THEN "uFFFD" ELSE c

\* an excerpt that is never cut
makeExcerptUncut(md, n) ==
    CollapseSpace(StripHead(StripFences(md, 1)))

makeExcerpt(md, n) ==
    LET s == CollapseSpace(StripHead(StripFences(md, 1)))
    IN  IF Len(s) > n
        THEN [i \in 1..n |-> RuneOf(s[i])] \o <<"...">>
        ELSE s

\* md.Convert of goldmark: an external, deterministic renderer.  The body
\* NoRender stands for a document on which Convert returns an error.
NoRender ==
    <<"!", "!">>

ConvertOk(body) ==
    body # NoRender

Convert(body) ==
    [html |-> body]

\* ------------------------------------------------------------------------
\* Configuration and the remote repository
\* ------------------------------------------------------------------------

\* flag -dir, default "data"
ContentDir ==
    <<"d","a","t","a">>

\* strings.Trim(cfg.ContentDir, "/") + "/"
Prefix ==
    Trim(ContentDir, {"/"}) \o <<"/">>

MdExt ==
    <<".","m","d">>

ExcerptLen ==
    140

PathA ==
    <<"d","a","t","a","/","a",".","m","d">>

PathB ==
    <<"d","a","t","a","/","b",".","m","d">>

PathFooBar ==
    <<"d","a","t","a","/","f","o","o","/","b","a","r",".","m","d">>

PathFooDashBar ==
    <<"d","a","t","a","/","f","o","o","-","b","a","r",".","m","d">>

PathFooDir ==
    <<"d","a","t","a","/","f","o","o">>

PathReadme ==
    <<"R","E","A","D","M","E",".","m","d">>

\* "# Hello\nWorld"
BodyHello ==
    <<"#"," ","H","e","l","l","o","LF","W","o","r","l","d">>

\* a document with no heading
BodyText ==
    <<"h","i">>

\* a heading whose text is a byte that is not valid UTF-8
BodyLatin1 ==
    <<"#"," ","xFF">>

\* what the contents endpoint may return for a path, when it answers
RemoteBodies(p) ==
    IF p = PathA THEN {BodyLatin1}
    ELSE IF p = PathB THEN {BodyHello}
    ELSE IF p = PathFooBar THEN {BodyHello, NoRender}
    ELSE {BodyText}

Blob(p) ==
    [Path |-> p, Type |-> "blob"]

Dir(p) ==
    [Path |-> p, Type |-> "tree"]

\* the answers of the recursive tree endpoint, in the order GitHub sends them
TreeResponses ==
    { <<Dir(PathFooDir), Blob(PathReadme)>>,
      <<Blob(PathReadme), Blob(PathB), Blob(PathA)>>,
      <<Dir(PathFooDir), Blob(PathFooBar), Blob(PathFooDashBar)>> }

\* ------------------------------------------------------------------------
\* Sorting
\* ------------------------------------------------------------------------

\* s with x inserted after its first k elements
InsertSorted(s, x, k) ==
    SubSeq(s, 1, k) \o <<x>> \o SubSeq(s, k + 1, Len(s))

\* sort.Strings
SortStrings(s) ==
    LET F[i \in 0..Len(s)] ==
            IF i = 0 THEN <<>> ELSE InsertSorted(F[i-1], s[i],
                     Cardinality({j \in 1..(i-1) : StrLess(F[i-1][j], s[i])}))
    IN  F[Len(s)]

SourcePathGreater(a, b) ==
    StrLess(b.SourcePath, a.SourcePath)

\* a fetchPosts that leaves the posts in the order of the loop
SortPostsKeepOrder(ps) ==
    ps

\* sort.Slice(posts, posts[i].SourcePath > posts[j].SourcePath)
SortPostsDesc(ps) ==
    LET F[i \in 0..Len(ps)] ==
            IF i = 0 THEN <<>> ELSE InsertSorted(F[i-1], ps[i],
                     Cardinality({j \in 1..(i-1) : SourcePathGreater(F[i-1][j], ps[i])}))
    IN  F[Len(ps)]

\* ------------------------------------------------------------------------
\* State
\* ------------------------------------------------------------------------

VARIABLES
    cache,      \* Cache: posts, bySlug, lastSync, lastErr
    mu,         \* cache.mu: the goroutine holding the write lock, the readers
    th,         \* the main goroutine and the refresh goroutine: pc and locals
    tick,       \* a tick is waiting in the ticker's channel t.C
    rd,         \* the HTTP handlers in progress
    disk,       \* ./data: the body files, index.json and index.json.tmp
    now,        \* the clock read by time.Now(): it advances before each pass
    gen,        \* history: the cache as it stood when the lock was last free
    good,       \* history: the posts of the last pass that fetchPosts ended well
    saved,      \* history: the posts given to the last save that was completed
    loads,      \* history: the calls of loadPostsFromDisk made by this process
    slugIn,     \* pure-function specification: the argument of slugify
    slugOut,    \* pure-function specification: the results so far
    slugPc,     \* pure-function specification: position
    exIn,       \* pure-function specification: the document given to makeExcerpt
    exN,        \* pure-function specification: the bound given to makeExcerpt
    exOut,      \* pure-function specification: the excerpt
    exPc,       \* pure-function specification: position
    titleIn,    \* pure-function specification: the document given to extractTitle
    titleOut,   \* pure-function specification: the title of the post
    titlePc,    \* pure-function specification: position
    pathIn,     \* pure-function specification: an item of the tree response
    pathOut,    \* pure-function specification: whether it is kept, and its slug
    pathPc,     \* pure-function specification: position
    plain,      \* the variant of the server that keeps no disk mirror
    det,        \* two passes over one state of the remote, and their results
    fr,         \* the friend-link and guestbook server: mutex, files, handlers
    cm          \* the comment store of the file-based blog: files, handlers

vars ==
    <<cache, mu, th, tick, rd, disk, now, gen, good, saved, loads,
      slugIn, slugOut, slugPc, exIn, exN, exOut, exPc,
      titleIn, titleOut, titlePc, pathIn, pathOut, pathPc, plain, det, fr, cm>>

sysVars ==
    <<cache, mu, th, tick, rd, disk, now, gen, good, saved, loads>>

\* the variables of the other programs of the repository
otherVars ==
    <<plain, det, fr, cm>>

pureVars ==
    <<slugIn, slugOut, slugPc, exIn, exN, exOut, exPc,
      titleIn, titleOut, titlePc, pathIn, pathOut, pathPc, otherVars>>

titleVars ==
    <<titleIn, titleOut, titlePc>>

pathVars ==
    <<pathIn, pathOut, pathPc>>

exVars ==
    <<exIn, exN, exOut, exPc>>

slugVars ==
    <<slugIn, slugOut, slugPc>>

\* slugify is not running
SlugOff ==
    /\ slugIn = <<>>
    /\ slugOut = <<>>
    /\ slugPc = "off"

\* makeExcerpt is not running
ExcerptOff ==
    /\ exIn = <<>>
    /\ exN = 0
    /\ exOut = <<>>
    /\ exPc = "off"

\* extractTitle is not running
TitleOff ==
    /\ titleIn = <<>>
    /\ titleOut = <<>>
    /\ titlePc = "off"

\* the candidate filter is not running
PathOff ==
    /\ pathIn = [Path |-> <<>>, Type |-> ""]
    /\ pathOut = [kept |-> FALSE, slug |-> <<>>]
    /\ pathPc = "off"

Threads ==
    {"main", "loop"}

Readers ==
    {"h1"}

Nil ==
    "nil"

ErrFetchTree ==
    "fetch tree"

ErrNoMarkdown ==
    "no .md files found"

ErrNoneRendered ==
    "none could be rendered"

None ==
    "none"

\* the zero time.Time
ZeroTime ==
    0

EmptyMap ==
    [x \in {} |-> None]

\* m[k] = v of a Go map
MapPut(m, k, v) ==
    [x \in DOMAIN m \cup {k} |-> IF x = k THEN v ELSE m[x]]

\* an index in which the first post of a slug is kept
IndexIntoFirstWins(m, ps) ==
    LET F[i \in 0..Len(ps)] ==
            IF i = 0 THEN m
            ELSE IF ps[i].Slug \in DOMAIN F[i-1] THEN F[i-1]
                 ELSE MapPut(F[i-1], ps[i].Slug, ps[i])
    IN  F[Len(ps)]

\* for _, p := range ps { m[p.Slug] = p }
IndexInto(m, ps) ==
    LET F[i \in 0..Len(ps)] ==
            IF i = 0 THEN m ELSE MapPut(F[i-1], ps[i].Slug, ps[i])
    IN  F[Len(ps)]

\* index.json and index.json.tmp hold <<>> when the file does not exist and
\* <<m>> when it holds the manifest m
EmptyDisk ==
    [files |-> EmptyMap, index |-> <<>>, tmp |-> <<>>]

\* the locals of a goroutine that is not inside syncOnce; ps and e are the
\* results of loadPostsFromDisk in main, in scope until its if statement
\* ends; skipped, began, wrote, pre, listing and asked are history: the
\* candidates the pass skipped, the clock of the pass, whether its save was
\* completed, the cache and the data directory as the pass found them, the
\* answer to the tree request, and the paths given to ghFetchFile, in order
NoLocals(pc) ==
    [pc |-> pc, mdFiles |-> <<>>, i |-> 0, posts |-> <<>>, raw |-> EmptyMap,
     err |-> Nil, ps |-> <<>>, e |-> Nil,
     skipped |-> {}, began |-> 0, wrote |-> FALSE,
     pre |-> [posts |-> <<>>, bySlug |-> EmptyMap, disk |-> EmptyDisk],
     listing |-> [ok |-> FALSE, tree |-> <<>>], asked |-> <<>>]

\* cache := &Cache{bySlug: map[string]Post{}}
NewCache ==
    [posts |-> <<>>, bySlug |-> EmptyMap, lastSync |-> ZeroTime, lastErr |-> Nil]

\* the zero Post
ZeroPost ==
    [Slug |-> <<>>, Title |-> <<>>, Excerpt |-> <<>>, HTML |-> [html |-> <<>>],
     SourcePath |-> <<>>]

NoRequest ==
    [kind |-> "none", slug |-> <<>>]

NoObservation ==
    [posts |-> <<>>, ok |-> FALSE, p |-> ZeroPost, lastSync |-> ZeroTime, lastErr |-> Nil]

IdleReader ==
    [pc |-> "idle", req |-> NoRequest, obs |-> NoObservation, at |-> NoObservation]

\* the process as main() finds it, on the data directory d
Boot(d) ==
    /\ cache = NewCache
    /\ mu = [writer |-> None, readers |-> {}]
    /\ th = [t \in Threads |-> IF t = "main" THEN NoLocals("load") ELSE NoLocals("off")]
    /\ tick = FALSE
    /\ rd = [r \in Readers |-> IdleReader]
    /\ disk = d
    /\ gen = NewCache
    /\ good = <<>>
    /\ loads = 0

SysInit ==
    /\ Boot(EmptyDisk)
    /\ now = 0
    /\ saved = <<>>

\* the variant without disk mirror: its cache, the position and the locals
\* of the goroutine that is in syncOnce, and its clock; pre and listing are
\* history, the cache as the pass found it and the answer to the tree request
PlainLocals(pc) ==
    [pc |-> pc, mdFiles |-> <<>>, i |-> 0, posts |-> <<>>, err |-> Nil,
     pre |-> [posts |-> <<>>, bySlug |-> EmptyMap],
     listing |-> [ok |-> FALSE, tree |-> <<>>]]

PlainBoot(pc) ==
    [cache |-> NewCache, now |-> 0, l |-> PlainLocals(pc)]

\* the variant without disk mirror is not running
PlainOff ==
    plain = PlainBoot("off")

\* no pass has been given a listing
DetOff ==
    det = [pc |-> "off"]

\* the friend-link and guestbook server is not running
FrOff ==
    fr = [pc |-> "off"]

\* the file-based blog is not running
CmOff ==
    cm = [pc |-> "off"]

OthersOff ==
    /\ PlainOff
    /\ DetOff
    /\ FrOff
    /\ CmOff

\* ------------------------------------------------------------------------
\* fetchPosts
\* ------------------------------------------------------------------------

\* the filter of the tree entries: a blob under the prefix ending in ".md"
IsCandidate(it) ==
    /\ it.Type = "blob"
    /\ HasPrefix(it.Path, Prefix)
    /\ HasSuffix(ToLower(it.Path), MdExt)

\* mdFiles in the order of the tree response
MdFilesOfListed(tree) ==
    LET cands == SelectSeq(tree, IsCandidate)
    IN  [i \in 1..Len(cands) |-> cands[i].Path]

\* mdFiles after sort.Strings
MdFilesOf(tree) ==
    LET cands == SelectSeq(tree, IsCandidate)
    IN  SortStrings([i \in 1..Len(cands) |-> cands[i].Path])

\* slugify(strings.TrimSuffix(strings.TrimPrefix(p, prefix), ".md"))
SlugOfPath(p) ==
    slugify(TrimSuffix(TrimPrefix(p, Prefix), MdExt))

TitleOf(p, body) ==
    IF extractTitle(body) = <<>> THEN BaseNoExt(p) ELSE extractTitle(body)

MakePost(p, body) ==
    [Slug |-> SlugOfPath(p),
     Title |-> TitleOf(p, body),
     Excerpt |-> makeExcerpt(body, ExcerptLen),
     HTML |-> Convert(body),
     SourcePath |-> p]

\* a fetchPosts that gives up when any candidate was skipped
FetchPostsReturnAllOrNothing(l) ==
    IF Len(l.posts) = 0 \/ l.skipped # {}
    THEN [l EXCEPT !.err = ErrNoneRendered, !.posts = <<>>, !.raw = EmptyMap,
                   !.pc = "lock"]
    ELSE [l EXCEPT !.posts = SortPostsDesc(l.posts), !.pc = "lock"]

\* a fetchPosts that returns an empty list without an error
FetchPostsReturnEmptyOk(l) ==
    [l EXCEPT !.posts = SortPostsDesc(l.posts), !.pc = "lock"]

\* the end of fetchPosts once every candidate has been tried
FetchPostsReturn(l) ==
    IF Len(l.posts) = 0
    THEN [l EXCEPT !.err = ErrNoneRendered, !.raw = EmptyMap, !.pc = "lock"]
    ELSE [l EXCEPT !.posts = SortPostsDesc(l.posts), !.pc = "lock"]

\* what ghGetJSON may answer to the tree request
TreeOutcomes ==
    {[ok |-> FALSE, tree |-> <<>>]}
        \cup {[ok |-> TRUE, tree |-> x] : x \in TreeResponses}

\* what ghFetchFile may answer for path p
FetchOutcomes(p) ==
    {[ok |-> FALSE, body |-> <<>>]}
        \cup {[ok |-> TRUE, body |-> b] : b \in RemoteBodies(p)}

\* a fetchPosts for which an empty candidate list is not an error
FetchTreeResultEmptyOk(l, resp) ==
    IF ~resp.ok
    THEN [l EXCEPT !.listing = resp, !.err = ErrFetchTree, !.pc = "lock"]
    ELSE IF MdFilesOf(resp.tree) = <<>>
         THEN [l EXCEPT !.listing = resp, !.pc = "lock"]
         ELSE [l EXCEPT !.listing = resp, !.mdFiles = MdFilesOf(resp.tree),
                        !.i = 1, !.pc = "fetchFile"]

\* a fetchPosts that takes a failed tree request for an empty tree
FetchTreeResultIgnoreError(l, resp) ==
    IF ~resp.ok \/ MdFilesOf(resp.tree) = <<>>
    THEN [l EXCEPT !.listing = resp, !.err = ErrNoMarkdown, !.pc = "lock"]
    ELSE [l EXCEPT !.listing = resp, !.mdFiles = MdFilesOf(resp.tree),
                   !.i = 1, !.pc = "fetchFile"]

\* the tree request and the filter of its entries
FetchTreeResult(l, resp) ==
    IF ~resp.ok
    THEN [l EXCEPT !.listing = resp, !.err = ErrFetchTree, !.pc = "lock"]
    ELSE IF MdFilesOf(resp.tree) = <<>>
         THEN [l EXCEPT !.listing = resp, !.err = ErrNoMarkdown, !.pc = "lock"]
         ELSE [l EXCEPT !.listing = resp, !.mdFiles = MdFilesOf(resp.tree),
                        !.i = 1, !.pc = "fetchFile"]

\* a loop over mdFiles that gives up at the first candidate that fails
FetchFileResultAbort(l, out) ==
    LET p == l.mdFiles[l.i]
    IN  IF out.ok /\ ConvertOk(out.body)
        THEN LET l1 == [l EXCEPT !.asked = Append(l.asked, p),
                                 !.posts = Append(l.posts, MakePost(p, out.body)),
                                 !.raw = MapPut(l.raw, SlugOfPath(p), out.body)]
             IN  IF l.i < Len(l.mdFiles)
                 THEN [l1 EXCEPT !.i = l.i + 1]
                 ELSE [l1 EXCEPT !.posts = SortPostsDesc(l1.posts), !.pc = "lock"]
        ELSE [l EXCEPT !.asked = Append(l.asked, p),
                       !.skipped = l.skipped \cup {p},
                       !.posts = <<>>, !.raw = EmptyMap,
                       !.err = ErrNoneRendered, !.pc = "lock"]

\* one iteration of the loop over mdFiles
FetchFileResult(l, out) ==
    LET p == l.mdFiles[l.i]
        l1 == IF out.ok /\ ConvertOk(out.body)
              THEN [l EXCEPT !.asked = Append(l.asked, p),
                             !.posts = Append(l.posts, MakePost(p, out.body)),
                             !.raw = MapPut(l.raw, SlugOfPath(p), out.body)]
              ELSE [l EXCEPT !.asked = Append(l.asked, p),
                             !.skipped = l.skipped \cup {p}]
    IN  IF l.i < Len(l.mdFiles)
        THEN [l1 EXCEPT !.i = l.i + 1]
        ELSE FetchPostsReturn(l1)

\* ------------------------------------------------------------------------
\* Disk mirror
\* ------------------------------------------------------------------------

\* json.Marshal of one symbol of a string: HTML-unsafe and control symbols
\* are escaped, a byte that is not valid UTF-8 becomes the escape of U+FFFD
JsonEscape(c) ==
    CASE c = "xFF" -> "esc_ufffd"
      [] c = "LF" -> "esc_n"
      [] c = "BSL" -> "esc_bsl"
      [] c = "<" -> "esc_u003c"
      [] c = ">" -> "esc_u003e"
      [] c = "&" -> "esc_u0026"
      [] OTHER -> c

\* json.Unmarshal of one symbol of a string
JsonUnescape(c) ==
    CASE c = "esc_ufffd" -> "uFFFD"
      [] c = "esc_n" -> "LF"
      [] c = "esc_bsl" -> "BSL"
      [] c = "esc_u003c" -> "<"
      [] c = "esc_u003e" -> ">"
      [] c = "esc_u0026" -> "&"
      [] OTHER -> c

JsonString(s) ==
    [i \in 1..Len(s) |-> JsonEscape(s[i])]

JsonParseString(s) ==
    [i \in 1..Len(s) |-> JsonUnescape(s[i])]

\* one element of diskIndex.Posts, as written
IndexEntry(p) ==
    [slug |-> JsonString(p.Slug),
     title |-> JsonString(p.Title),
     excerpt |-> JsonString(p.Excerpt),
     source_path |-> JsonString(p.SourcePath)]

\* json.MarshalIndent(idx): the manifest of a post list
BuildIndex(posts, at) ==
    [whole |-> TRUE,
     generated_at |-> at,
     repo_label |-> "owner/repo:main/data",
     posts |-> [i \in 1..Len(posts) |-> IndexEntry(posts[i])]]

\* the Post loadPostsFromDisk makes of a manifest entry and its body file
LoadedPost(it, raw) ==
    [Slug |-> JsonParseString(it.slug),
     Title |-> JsonParseString(it.title),
     Excerpt |-> JsonParseString(it.excerpt),
     HTML |-> Convert(raw),
     SourcePath |-> JsonParseString(it.source_path)]

\* an entry is kept when its body file can be read and rendered
Loadable(d, it) ==
    /\ JsonParseString(it.slug) \in DOMAIN d.files
    /\ ConvertOk(d.files[JsonParseString(it.slug)])

\* os.ReadFile(index.json) fails when the file does not exist, and
\* json.Unmarshal fails on a manifest that was cut short
ErrNoIndex ==
    "open index.json"

ErrBadIndex ==
    "unexpected end of JSON input"

\* a load that gives up when one body file cannot be read
loadPostsFromDiskStrict(d) ==
    IF d.index = <<>>
    THEN [ps |-> <<>>, err |-> ErrNoIndex]
    ELSE IF ~d.index[1].whole
    THEN [ps |-> <<>>, err |-> ErrBadIndex]
    ELSE LET its == d.index[1].posts
         IN  IF \E i \in 1..Len(its) : ~Loadable(d, its[i])
             THEN [ps |-> <<>>, err |-> "open body"]
             ELSE [ps |-> [i \in 1..Len(its) |->
                              LoadedPost(its[i], d.files[JsonParseString(its[i].slug)])],
                   err |-> Nil]

\* a load that also picks up a body file the manifest does not list, as a
\* scan of the data directory would
loadPostsFromDiskWithStrays(d) ==
    IF d.index = <<>>
    THEN [ps |-> <<>>, err |-> ErrNoIndex]
    ELSE IF ~d.index[1].whole
    THEN [ps |-> <<>>, err |-> ErrBadIndex]
    ELSE LET its == d.index[1].posts
             F[i \in 0..Len(its)] ==
                 IF i = 0 THEN <<>>
                 ELSE IF Loadable(d, its[i])
                      THEN Append(F[i-1],
                                  LoadedPost(its[i], d.files[JsonParseString(its[i].slug)]))
                      ELSE F[i-1]
             strays == DOMAIN d.files \
                           {JsonParseString(its[i].slug) : i \in 1..Len(its)}
             s == CHOOSE x \in strays : TRUE
         IN  [ps |-> IF strays = {} THEN F[Len(its)]
                     ELSE Append(F[Len(its)],
                                 [Slug |-> s, Title |-> s, Excerpt |-> <<>>,
                                  HTML |-> Convert(d.files[s]), SourcePath |-> s]),
              err |-> Nil]

loadPostsFromDisk(d) ==
    IF d.index = <<>>
    THEN [ps |-> <<>>, err |-> ErrNoIndex]
    ELSE IF ~d.index[1].whole
    THEN [ps |-> <<>>, err |-> ErrBadIndex]
    ELSE LET its == d.index[1].posts
             F[i \in 0..Len(its)] ==
                 IF i = 0 THEN <<>>
                 ELSE IF Loadable(d, its[i])
                      THEN Append(F[i-1],
                                  LoadedPost(its[i], d.files[JsonParseString(its[i].slug)]))
                      ELSE F[i-1]
         IN  [ps |-> F[Len(its)], err |-> Nil]

\* ------------------------------------------------------------------------
\* main: startup
\* ------------------------------------------------------------------------

\* a write lock that does not wait for the readers to leave
CanLockIgnoringReaders ==
    mu.writer = None

\* cache.mu.Lock()
CanLock ==
    /\ mu.writer = None
    /\ mu.readers = {}

\* cache.mu.RLock()
CanRLock ==
    mu.writer = None

\* a startup that does not put the loaded posts in the cache
LoadedCacheDropped(c, res) ==
    c

\* a startup that records the error of the load in lastErr
LoadedCacheRecordsError(c, res) ==
    IF res.err = Nil /\ Len(res.ps) > 0
    THEN [c EXCEPT !.posts = res.ps, !.bySlug = IndexInto(c.bySlug, res.ps)]
    ELSE [c EXCEPT !.lastErr = res.err]

\* if ps, e := loadPostsFromDisk(cfg, md); e == nil && len(ps) > 0 { ... }
LoadedCache(c, res) ==
    IF res.err = Nil /\ Len(res.ps) > 0
    THEN [c EXCEPT !.posts = res.ps, !.bySlug = IndexInto(c.bySlug, res.ps)]
    ELSE c

\* a main that exits when the mirror cannot be loaded
StartupLoadFatal ==
    /\ th["main"].pc = "load"
    /\ CanLock
    /\ cache' = LoadedCache(cache, loadPostsFromDisk(disk))
    /\ gen' = cache'
    /\ good' = loadPostsFromDisk(disk).ps
    /\ th' = [th EXCEPT !["main"].pc = IF loadPostsFromDisk(disk).err = Nil
                                        THEN "callSync" ELSE "exit",
                        !["main"].ps = loadPostsFromDisk(disk).ps,
                        !["main"].e = loadPostsFromDisk(disk).err]
    /\ loads' = loads + 1
    /\ UNCHANGED <<mu, tick, rd, disk, now, saved, pureVars>>

StartupLoad ==
    /\ th["main"].pc = "load"
    /\ CanLock
    /\ cache' = LoadedCache(cache, loadPostsFromDisk(disk))
    /\ gen' = cache'
    /\ good' = loadPostsFromDisk(disk).ps
    /\ th' = [th EXCEPT !["main"].pc = "callSync",
                        !["main"].ps = loadPostsFromDisk(disk).ps,
                        !["main"].e = loadPostsFromDisk(disk).err]
    /\ loads' = loads + 1
    /\ UNCHANGED <<mu, tick, rd, disk, now, saved, pureVars>>

\* go func() { t := time.NewTicker(1 * time.Hour); for range t.C { ... } }()
Spawn ==
    /\ th["main"].pc = "spawn"
    /\ th' = [th EXCEPT !["main"].pc = "listen", !["loop"].pc = "wait"]
    /\ UNCHANGED <<cache, mu, tick, rd, disk, now, gen, good, saved, loads, pureVars>>

\* http.ListenAndServe
Listen ==
    /\ th["main"].pc = "listen"
    /\ th' = [th EXCEPT !["main"].pc = "serve"]
    /\ UNCHANGED <<cache, mu, tick, rd, disk, now, gen, good, saved, loads, pureVars>>

\* the ticker puts a tick in t.C (a tick on a full channel is dropped)
TickerFire ==
    /\ th["loop"].pc # "off"
    /\ ~tick
    /\ tick' = TRUE
    /\ UNCHANGED <<cache, mu, th, rd, disk, now, gen, good, saved, loads, pureVars>>

\* ------------------------------------------------------------------------
\* syncOnce
\* ------------------------------------------------------------------------

\* a refresh goroutine that is started with the process and syncs at once
CallReadyEager(t) ==
    \/ t = "main" /\ th[t].pc = "callSync"
    \/ t = "loop" /\ th[t].pc \in {"off", "wait"}

\* a main that may start the initial sync without loading the mirror first
CallReadyBeforeLoad(t) ==
    \/ t = "main" /\ th[t].pc \in {"load", "callSync"}
    \/ t = "loop" /\ th[t].pc = "wait" /\ tick

\* the call of syncOnce: by main after the disk load, by the loop on a tick
CallReady(t) ==
    \/ t = "main" /\ th[t].pc = "callSync"
    \/ t = "loop" /\ th[t].pc = "wait" /\ tick

SyncBegin(t) ==
    /\ CallReady(t)
    /\ now < MaxPasses
    /\ now' = now + 1
    /\ tick' = IF t = "loop" THEN FALSE ELSE tick
    /\ th' = [th EXCEPT ![t] =
                 [NoLocals("fetchTree") EXCEPT
                     !.began = now + 1,
                     !.pre = [posts |-> cache.posts, bySlug |-> cache.bySlug,
                              disk |-> disk]]]
    /\ UNCHANGED <<cache, mu, rd, disk, gen, good, saved, loads, pureVars>>

FetchTree(t) ==
    /\ th[t].pc = "fetchTree"
    /\ \E resp \in TreeOutcomes :
           th' = [th EXCEPT ![t] = FetchTreeResult(th[t], resp)]
    /\ UNCHANGED <<cache, mu, tick, rd, disk, now, gen, good, saved, loads, pureVars>>

FetchFile(t) ==
    /\ th[t].pc = "fetchFile"
    /\ \E out \in FetchOutcomes(th[t].mdFiles[th[t].i]) :
           th' = [th EXCEPT ![t] = FetchFileResult(th[t], out)]
    /\ good' = IF th'[t].pc = "lock" /\ th'[t].err = Nil /\ Len(th'[t].posts) > 0
               THEN th'[t].posts
               ELSE good
    /\ UNCHANGED <<cache, mu, tick, rd, disk, now, gen, saved, loads, pureVars>>

\* a swap that is not guarded by the outcome of the pass
ShouldReplaceAlways(err, posts) ==
    TRUE

\* if err == nil && len(posts) > 0
ShouldReplace(err, posts) ==
    /\ err = Nil
    /\ Len(posts) > 0

Lock(t) ==
    /\ th[t].pc = "lock"
    /\ CanLock
    /\ mu' = [mu EXCEPT !.writer = t]
    /\ th' = [th EXCEPT ![t].pc = "setStatus"]
    /\ UNCHANGED <<cache, tick, rd, disk, now, gen, good, saved, loads, pureVars>>

\* a status that is recorded by successful passes only
StatusAfterSuccessOnly(c, at, err) ==
    IF err = Nil THEN [c EXCEPT !.lastSync = at, !.lastErr = err] ELSE c

\* cache.lastSync = time.Now(); cache.lastErr = err
StatusAfter(c, at, err) ==
    [c EXCEPT !.lastSync = at, !.lastErr = err]

\* a status update in a critical section of its own, before that of the swap
SetStatusOwnSection(t) ==
    /\ th[t].pc = "setStatus"
    /\ cache' = StatusAfter(cache, now, th[t].err)
    /\ mu' = [mu EXCEPT !.writer = None]
    /\ gen' = gen
    /\ th' = [th EXCEPT ![t].pc =
                 IF ShouldReplace(th[t].err, th[t].posts) THEN "setPosts" ELSE "unlock"]
    /\ UNCHANGED <<tick, rd, disk, now, good, saved, loads, pureVars>>

SetStatus(t) ==
    /\ th[t].pc = "setStatus"
    /\ cache' = StatusAfter(cache, now, th[t].err)
    /\ th' = [th EXCEPT ![t].pc =
                 IF ShouldReplace(th[t].err, th[t].posts) THEN "setPosts" ELSE "unlock"]
    /\ UNCHANGED <<mu, tick, rd, disk, now, gen, good, saved, loads, pureVars>>

\* cache.posts = posts
SetPosts(t) ==
    /\ th[t].pc = "setPosts"
    /\ cache' = [cache EXCEPT !.posts = th[t].posts]
    /\ th' = [th EXCEPT ![t].pc = "setIndex"]
    /\ UNCHANGED <<mu, tick, rd, disk, now, gen, good, saved, loads, pureVars>>

\* a swap that leaves the slug index to be rebuilt after the pass
SetIndexSkipped(t) ==
    /\ th[t].pc = "setIndex"
    /\ th' = [th EXCEPT ![t].pc = "unlock"]
    /\ UNCHANGED <<cache, mu, tick, rd, disk, now, gen, good, saved, loads, pureVars>>

\* cache.bySlug = map[string]Post{}; for _, p := range posts { ... }
SetIndex(t) ==
    /\ th[t].pc = "setIndex"
    /\ cache' = [cache EXCEPT !.bySlug = IndexInto(EmptyMap, th[t].posts)]
    /\ th' = [th EXCEPT ![t].pc = "unlock"]
    /\ UNCHANGED <<mu, tick, rd, disk, now, gen, good, saved, loads, pureVars>>

\* a save that is not guarded by the outcome of the pass
ShouldSaveAlways(err, posts) ==
    TRUE

\* the second test of err == nil && len(posts) > 0, after the unlock
ShouldSave(err, posts) ==
    /\ err = Nil
    /\ Len(posts) > 0

\* an unlock put off to the return of syncOnce, as a deferred unlock would be
UnlockDeferred(t) ==
    /\ th[t].pc = "unlock"
    /\ gen' = cache
    /\ th' = [th EXCEPT ![t].pc =
                 IF ShouldSave(th[t].err, th[t].posts) THEN "mkdir" ELSE "ret"]
    /\ UNCHANGED <<cache, mu, tick, rd, disk, now, good, saved, loads, pureVars>>

Unlock(t) ==
    /\ th[t].pc = "unlock"
    /\ mu' = [mu EXCEPT !.writer = None]
    /\ gen' = cache
    /\ th' = [th EXCEPT ![t].pc =
                 IF ShouldSave(th[t].err, th[t].posts) THEN "mkdir" ELSE "ret"]
    /\ UNCHANGED <<cache, tick, rd, disk, now, good, saved, loads, pureVars>>

\* a caller that gives up when syncOnce returns an error
ReturnStopsOnError(t) ==
    /\ th[t].pc = "ret"
    /\ th' = [th EXCEPT ![t] = NoLocals(IF th[t].err # Nil THEN "exit"
                                        ELSE IF t = "main" THEN "spawn" ELSE "wait")]
    /\ UNCHANGED <<cache, mu, tick, rd, disk, now, gen, good, saved, loads, pureVars>>

\* return err; the caller logs the error and goes on: main to the go
\* statement, the refresh goroutine to the next receive from t.C
Return(t) ==
    /\ th[t].pc = "ret"
    /\ th' = [th EXCEPT ![t] = NoLocals(IF t = "main" THEN "spawn" ELSE "wait")]
    /\ UNCHANGED <<cache, mu, tick, rd, disk, now, gen, good, saved, loads, pureVars>>

\* ------------------------------------------------------------------------
\* savePostsToDisk
\* ------------------------------------------------------------------------

\* what os.WriteFile leaves behind: the new content, or on an error the old
\* file (it could not be opened) or an empty file (it was truncated)
WriteOutcomes ==
    {"ok", "untouched", "truncated"}

\* a syncOnce that returns the error of savePostsToDisk
SaveMkdirFatal(t) ==
    /\ th[t].pc = "mkdir"
    /\ \E ok \in BOOLEAN :
           th' = [th EXCEPT ![t].pc = IF ~ok THEN "ret"
                                       ELSE IF Len(th[t].posts) = 0 THEN "writeTmp"
                                       ELSE "writeBody",
                            ![t].err = IF ~ok THEN "mkdir" ELSE th[t].err,
                            ![t].i = 1]
    /\ UNCHANGED <<cache, mu, tick, rd, disk, now, gen, good, saved, loads, pureVars>>

\* os.MkdirAll(cfg.DataDir, 0o755)
SaveMkdir(t) ==
    /\ th[t].pc = "mkdir"
    /\ \E ok \in BOOLEAN :
           th' = [th EXCEPT ![t].pc = IF ~ok THEN "ret"
                                       ELSE IF Len(th[t].posts) = 0 THEN "writeTmp"
                                       ELSE "writeBody",
                            ![t].i = 1]
    /\ UNCHANGED <<cache, mu, tick, rd, disk, now, gen, good, saved, loads, pureVars>>

\* the files after os.WriteFile(<slug>.md, raw) ended with outcome w
FilesAfterWrite(files, slug, raw, w) ==
    CASE w = "ok" -> MapPut(files, slug, raw)
      [] w = "truncated" -> MapPut(files, slug, <<>>)
      [] OTHER -> files

\* one iteration of the loop over posts that writes the body files
SaveBody(t) ==
    /\ th[t].pc = "writeBody"
    /\ LET l == th[t]
           p == l.posts[l.i]
           next == IF l.i < Len(l.posts)
                   THEN [l EXCEPT !.i = l.i + 1]
                   ELSE [l EXCEPT !.pc = "writeTmp"]
       IN  IF p.Slug \notin DOMAIN l.raw
           THEN /\ th' = [th EXCEPT ![t] = next]
                /\ disk' = disk
           ELSE \E w \in WriteOutcomes :
                    /\ disk' = [disk EXCEPT !.files =
                                    FilesAfterWrite(disk.files, p.Slug, l.raw[p.Slug], w)]
                    /\ th' = [th EXCEPT ![t] =
                                 IF w = "ok" THEN next ELSE [l EXCEPT !.pc = "ret"]]
    /\ UNCHANGED <<cache, mu, tick, rd, now, gen, good, saved, loads, pureVars>>

\* a manifest file cut short by a failed write
TruncatedIndex ==
    [whole |-> FALSE, generated_at |-> ZeroTime, repo_label |-> "", posts |-> <<>>]

\* a save that renames the temporary file whatever the write returned
SaveTmpUnchecked(t) ==
    /\ th[t].pc = "writeTmp"
    /\ \E w \in WriteOutcomes :
           /\ disk' = [disk EXCEPT !.tmp =
                           CASE w = "ok" -> <<BuildIndex(th[t].posts, now)>>
                             [] w = "truncated" -> <<TruncatedIndex>>
                             [] OTHER -> disk.tmp]
           /\ th' = [th EXCEPT ![t].pc = "rename"]
    /\ UNCHANGED <<cache, mu, tick, rd, now, gen, good, saved, loads, pureVars>>

\* idx.GeneratedAt = time.Now(); ...; os.WriteFile(index.json.tmp, b)
SaveTmp(t) ==
    /\ th[t].pc = "writeTmp"
    /\ \E w \in WriteOutcomes :
           /\ disk' = [disk EXCEPT !.tmp =
                           CASE w = "ok" -> <<BuildIndex(th[t].posts, now)>>
                             [] w = "truncated" -> <<TruncatedIndex>>
                             [] OTHER -> disk.tmp]
           /\ th' = [th EXCEPT ![t].pc = IF w = "ok" THEN "rename" ELSE "ret"]
    /\ UNCHANGED <<cache, mu, tick, rd, now, gen, good, saved, loads, pureVars>>

\* os.Rename(index.json.tmp, index.json)
SaveRename(t) ==
    /\ th[t].pc = "rename"
    /\ \E ok \in BOOLEAN :
           /\ disk' = IF ok
                      THEN [disk EXCEPT !.index = disk.tmp, !.tmp = <<>>]
                      ELSE disk
           /\ saved' = IF ok THEN th[t].posts ELSE saved
           /\ th' = [th EXCEPT ![t].pc = "ret", ![t].wrote = ok]
    /\ UNCHANGED <<cache, mu, tick, rd, now, gen, good, loads, pureVars>>

\* ------------------------------------------------------------------------
\* HTTP handlers
\* ------------------------------------------------------------------------

\* the slug asked of the post handler: the one two files of the third tree share
RequestSlugs ==
    {SlugOfPath(PathFooBar)}

Requests ==
    {[kind |-> "index", slug |-> <<>>]}
        \cup {[kind |-> "post", slug |-> x] : x \in RequestSlugs}

\* what a handler copies out of the cache between RLock and RUnlock: the
\* index handler the post list, the post handler the entry of its slug
Observe(c, req) ==
    [posts |-> IF req.kind = "index" THEN c.posts ELSE <<>>,
     ok |-> req.kind = "post" /\ req.slug \in DOMAIN c.bySlug,
     p |-> IF req.kind = "post" /\ req.slug \in DOMAIN c.bySlug
           THEN c.bySlug[req.slug]
           ELSE ZeroPost,
     lastSync |-> c.lastSync,
     lastErr |-> c.lastErr]

\* a request arrives and its handler takes cache.mu.RLock()
HandlerRLock(r) ==
    /\ th["main"].pc = "serve"
    /\ rd[r].pc = "idle"
    /\ CanRLock
    /\ \E req \in Requests :
           rd' = [rd EXCEPT ![r] = [IdleReader EXCEPT !.pc = "held", !.req = req]]
    /\ mu' = [mu EXCEPT !.readers = mu.readers \cup {r}]
    /\ UNCHANGED <<cache, th, tick, disk, now, gen, good, saved, loads, pureVars>>

\* the post handler on a path with an empty slug ("/p/", "/p//"): it
\* answers before it takes the lock
HandlerNotFound(r) ==
    /\ th["main"].pc = "serve"
    /\ rd[r].pc = "idle"
    /\ rd' = [rd EXCEPT ![r] = [IdleReader EXCEPT !.pc = "done",
                                    !.req = [kind |-> "post", slug |-> <<>>]]]
    /\ UNCHANGED <<cache, mu, th, tick, disk, now, gen, good, saved, loads, pureVars>>

\* a handler that clears lastErr once it has shown it
HandlerReadClearsError(r) ==
    /\ rd[r].pc = "held"
    /\ rd' = [rd EXCEPT ![r].pc = "done",
                        ![r].obs = Observe(cache, rd[r].req),
                        ![r].at = Observe(gen, rd[r].req)]
    /\ mu' = [mu EXCEPT !.readers = mu.readers \ {r}]
    /\ cache' = [cache EXCEPT !.lastErr = Nil]
    /\ UNCHANGED <<th, tick, disk, now, gen, good, saved, loads, pureVars>>

\* the reads of the handler, then cache.mu.RUnlock()
HandlerRead(r) ==
    /\ rd[r].pc = "held"
    /\ rd' = [rd EXCEPT ![r].pc = "done",
                        ![r].obs = Observe(cache, rd[r].req),
                        ![r].at = Observe(gen, rd[r].req)]
    /\ mu' = [mu EXCEPT !.readers = mu.readers \ {r}]
    /\ UNCHANGED <<cache, th, tick, disk, now, gen, good, saved, loads, pureVars>>

NotFound ==
    [kind |-> "notFound", name |-> "", Posts |-> <<>>, Post |-> ZeroPost,
     LastSync |-> ZeroTime, LastErr |-> Nil]

\* a handler that answers with an error while lastErr is set
ResponseFailsOnError(req, obs) ==
    IF obs.lastErr # Nil
    THEN [NotFound EXCEPT !.kind = "error"]
    ELSE IF req.kind = "index"
    THEN [kind |-> "render", name |-> "index", Posts |-> obs.posts, Post |-> ZeroPost,
          LastSync |-> obs.lastSync, LastErr |-> obs.lastErr]
    ELSE IF req.slug = <<>> \/ ~obs.ok
    THEN NotFound
    ELSE [kind |-> "render", name |-> "post", Posts |-> <<>>, Post |-> obs.p,
          LastSync |-> obs.lastSync, LastErr |-> obs.lastErr]

\* what the handler of req answers once it has copied obs out of the
\* cache: http.NotFound, or the template executed on the copies
Response(req, obs) ==
    IF req.kind = "index"
    THEN [kind |-> "render", name |-> "index", Posts |-> obs.posts, Post |-> ZeroPost,
          LastSync |-> obs.lastSync, LastErr |-> obs.lastErr]
    ELSE IF req.slug = <<>> \/ ~obs.ok
    THEN NotFound
    ELSE [kind |-> "render", name |-> "post", Posts |-> <<>>, Post |-> obs.p,
          LastSync |-> obs.lastSync, LastErr |-> obs.lastErr]

\* render, or http.NotFound
HandlerRespond(r) ==
    /\ rd[r].pc = "done"
    /\ rd' = [rd EXCEPT ![r] = IdleReader]
    /\ UNCHANGED <<cache, mu, th, tick, disk, now, gen, good, saved, loads, pureVars>>

\* ------------------------------------------------------------------------
\* The process is killed and started again on the same data directory
\* ------------------------------------------------------------------------

Restart ==
    /\ th["main"].pc # "load"
    /\ cache' = NewCache
    /\ mu' = [writer |-> None, readers |-> {}]
    /\ th' = [t \in Threads |-> IF t = "main" THEN NoLocals("load") ELSE NoLocals("off")]
    /\ tick' = FALSE
    /\ rd' = [r \in Readers |-> IdleReader]
    /\ gen' = NewCache
    /\ good' = <<>>
    /\ loads' = 0
    /\ UNCHANGED <<disk, now, saved, pureVars>>

\* ------------------------------------------------------------------------
\* Specification of the server
\* ------------------------------------------------------------------------

Init ==
    /\ SysInit
    /\ SlugOff
    /\ ExcerptOff
    /\ TitleOff
    /\ PathOff
    /\ OthersOff

\* the call of syncOnce by goroutine t, step by step
Pass(t) ==
    \/ SyncBegin(t)
    \/ FetchTree(t)
    \/ FetchFile(t)
    \/ Lock(t)
    \/ SetStatus(t)
    \/ SetPosts(t)
    \/ SetIndex(t)
    \/ Unlock(t)
    \/ SaveMkdir(t)
    \/ SaveBody(t)
    \/ SaveTmp(t)
    \/ SaveRename(t)
    \/ Return(t)

\* the steps of main outside syncOnce
MainStep ==
    \/ StartupLoad
    \/ Spawn
    \/ Listen

\* the steps of one run of the process
RunNext ==
    \/ MainStep
    \/ TickerFire
    \/ \E t \in Threads : Pass(t)

\* the steps of main and of the refresh goroutine, and the restart
SyncNext ==
    \/ RunNext
    \/ Restart

\* the steps of the HTTP handlers on the requests that reach the cache
ServeNext ==
    \E r \in Readers :
        \/ HandlerRLock(r)
        \/ HandlerRead(r)
        \/ HandlerRespond(r)

Next ==
    \/ SyncNext
    \/ ServeNext

\* the server with requests arriving at any time
Spec ==
    Init /\ [][Next]_vars

\* the server while no request arrives: the handlers only read the cache,
\* so that the passes, the cache and the data directory go through the same
\* states as under Spec
SyncSpec ==
    Init /\ [][SyncNext]_vars

\* one run of the process with requests arriving at any time
RunSpec ==
    Init /\ [][RunNext \/ ServeNext]_vars

\* one run of the process on a data directory whose manifest is missing or
\* does not parse
StartDisks ==
    {EmptyDisk, [EmptyDisk EXCEPT !.index = <<TruncatedIndex>>]}

BootInit ==
    /\ \E d \in StartDisks : Boot(d)
    /\ now = 0
    /\ saved = <<>>
    /\ SlugOff
    /\ ExcerptOff
    /\ TitleOff
    /\ PathOff
    /\ OthersOff

BootSpec ==
    BootInit /\ [][RunNext]_vars

\* one run of the process in which the steps that can be taken are taken in
\* the end: the Go scheduler runs a goroutine that is not blocked, the ticker
\* goes on firing, and the remote answers or fails every request
Fairness ==
    /\ WF_vars(MainStep \/ Pass("main"))
    /\ WF_vars(TickerFire)
    /\ WF_vars(Pass("loop"))

LiveSpec ==
    Init /\ [][RunNext]_vars /\ Fairness

\* ------------------------------------------------------------------------
\* Specification of slugify alone: every string of at most MaxLen symbols of
\* SlugAlphabet is slugified, and the result is slugified again
\* ------------------------------------------------------------------------

SlugAlphabet ==
    {"a", "B", "7", "-", "/", "BSL", " ", "_", ".", "eACUTE"}

SlugInputs ==
    UNION {[1..n -> SlugAlphabet] : n \in 0..MaxLen}

SlugInit ==
    /\ SysInit
    /\ slugIn \in SlugInputs
    /\ slugOut = <<>>
    /\ slugPc = "input"
    /\ ExcerptOff
    /\ TitleOff
    /\ PathOff
    /\ OthersOff

SlugApply ==
    /\ slugPc = "input"
    /\ slugOut' = <<slugify(slugIn)>>
    /\ slugPc' = "once"
    /\ UNCHANGED <<sysVars, slugIn, exVars, titleVars, pathVars, otherVars>>

SlugReapply ==
    /\ slugPc = "once"
    /\ slugOut' = Append(slugOut, slugify(slugOut[1]))
    /\ slugPc' = "twice"
    /\ UNCHANGED <<sysVars, slugIn, exVars, titleVars, pathVars, otherVars>>

SlugNext ==
    \/ SlugApply
    \/ SlugReapply

SlugSpec ==
    SlugInit /\ [][SlugNext]_vars

\* C9: slugify is idempotent: slugifying a slug gives the same slug again
C9_SlugifyIdempotent ==
    slugPc = "twice" => slugOut[2] = slugOut[1]

\* s has two "-" in a row
HasDoubledSeparator(s) ==
    \E i \in 1..(Len(s) - 1) : s[i] = "-" /\ s[i+1] = "-"

\* C10: the slug of a path is lower-case, made of letters, digits and "-"
\* only, neither begins nor ends with "-", has every run of path separators,
\* white space and underscores of a path without "-" collapsed to one "-",
\* and is "post" when no letter or digit remains
C10_SlugShape ==
    slugPc = "once" =>
        LET out == slugOut[1]
        IN  /\ \A i \in 1..Len(out) : out[i] \in LowerLetters \cup Digits \cup {"-"}
            /\ Len(out) > 0
            /\ out[1] # "-"
            /\ out[Len(out)] # "-"
            /\ (\A i \in 1..Len(slugIn) : slugIn[i] # "-") => ~HasDoubledSeparator(out)
            /\ (\A i \in 1..Len(slugIn) :
                    slugIn[i] \notin LowerLetters \cup UpperLetters \cup Digits)
                   => out = <<"p","o","s","t">>

\* ------------------------------------------------------------------------
\* Specification of makeExcerpt alone: every document made of at most
\* MaxPieces pieces is cut at every bound of 0..MaxCut
\* ------------------------------------------------------------------------

\* a letter, white space, a heading marker, a fence, a byte that is not
\* valid UTF-8
ExcerptPieces ==
    {<<"a">>, <<" ">>, <<"LF">>, <<"#">>, <<"BQ","BQ","BQ">>, <<"xFF">>}

Flatten(ss) ==
    LET F[i \in 0..Len(ss)] == IF i = 0 THEN <<>> ELSE F[i-1] \o ss[i]
    IN  F[Len(ss)]

ExcerptInputs ==
    {Flatten(ss) : ss \in UNION {[1..k -> ExcerptPieces] : k \in 0..MaxPieces}}

ExcerptInit ==
    /\ SysInit
    /\ SlugOff
    /\ exIn \in ExcerptInputs
    /\ exN \in 0..MaxCut
    /\ exOut = <<>>
    /\ exPc = "input"
    /\ TitleOff
    /\ PathOff
    /\ OthersOff

ExcerptApply ==
    /\ exPc = "input"
    /\ exOut' = makeExcerpt(exIn, exN)
    /\ exPc' = "done"
    /\ UNCHANGED <<sysVars, slugVars, exIn, exN, titleVars, pathVars, otherVars>>

ExcerptNext ==
    ExcerptApply

ExcerptSpec ==
    ExcerptInit /\ [][ExcerptNext]_vars

\* the text of a document once fenced blocks and heading markers are removed
\* and white space is collapsed and trimmed
Normalized(md) ==
    CollapseSpace(StripHead(StripFences(md, 1)))

HasEllipsis(s) ==
    \E i \in 1..Len(s) : s[i] = "..."

\* C18 as stated: at most n code points and the ellipsis, no ellipsis when
\* the normalized text has at most n code points, and a document shorter
\* than the bound comes back unmodified
C18_ShortDocumentUnmodified ==
    exPc = "done" =>
        /\ Len(exOut) <= exN + 1
        /\ Len(Normalized(exIn)) <= exN => ~HasEllipsis(exOut)
        /\ Len(exIn) < exN => exOut = exIn

\* C18 amended: the excerpt has at most n code points and the ellipsis; when
\* the normalized text has at most n code points the excerpt is that text,
\* with no ellipsis and no line break, so that a document that is its own
\* normalized text and no longer than n comes back unmodified; otherwise
\* the excerpt is n code points followed by the ellipsis
C18_ExcerptBounded ==
    exPc = "done" =>
        /\ Len(exOut) <= exN + 1
        /\ \A i \in 1..Len(exOut) : exOut[i] # "LF"
        /\ Len(Normalized(exIn)) <= exN =>
               /\ exOut = Normalized(exIn)
               /\ ~HasEllipsis(exOut)
        /\ Len(exIn) <= exN /\ Normalized(exIn) = exIn => exOut = exIn
        /\ Len(Normalized(exIn)) > exN =>
               /\ Len(exOut) = exN + 1
               /\ exOut[exN + 1] = "..."
               /\ \A i \in 1..exN : exOut[i] = RuneOf(Normalized(exIn)[i])

\* a text longer than the bound was cut, and its cut holds a byte that was
\* not valid UTF-8
C18_Witness ==
    /\ exPc = "done"
    /\ exN = MaxCut
    /\ Len(Normalized(exIn)) > exN + 1
    /\ Len(exOut) = exN + 1
    /\ exOut[1] = "uFFFD"
    /\ Len(exIn) > Len(Normalized(exIn))


\* ------------------------------------------------------------------------
\* Properties of the server
\* ------------------------------------------------------------------------

\* the positions of a goroutine inside syncOnce
SyncPcs ==
    {"fetchTree", "fetchFile", "lock", "setStatus", "setPosts", "setIndex",
     "unlock", "mkdir", "writeBody", "writeTmp", "rename", "ret"}

\* the positions inside savePostsToDisk
SavePcs ==
    {"mkdir", "writeBody", "writeTmp", "rename"}

\* the positions after cache.mu.Unlock()
AfterUnlockPcs ==
    SavePcs \cup {"ret"}

PassSucceeded(t) ==
    /\ th[t].err = Nil
    /\ Len(th[t].posts) > 0

\* C1: a pass replaces the post list and the slug index if and only if
\* fetchPosts returned a nil error and at least one post; after any other
\* pass both are exactly what they were before the pass
C1_ReplacedIffFetched ==
    \A t \in Threads :
        th[t].pc \in AfterUnlockPcs =>
            IF PassSucceeded(t)
            THEN /\ cache.posts = th[t].posts
                 /\ cache.bySlug = IndexInto(EmptyMap, th[t].posts)
            ELSE /\ cache.posts = th[t].pre.posts
                 /\ cache.bySlug = th[t].pre.bySlug

\* a pass has failed over a cache that held posts
C1_Witness ==
    \E t \in Threads :
        /\ th[t].pc = "ret"
        /\ th[t].err # Nil
        /\ th[t].pre.posts # <<>>
        /\ cache.posts # <<>>

\* the post list and the slug index describe the same posts
Consistent(c) ==
    /\ \A k \in DOMAIN c.bySlug : \E i \in 1..Len(c.posts) : c.posts[i].Slug = k
    /\ \A i \in 1..Len(c.posts) : c.posts[i].Slug \in DOMAIN c.bySlug
    /\ \A k \in DOMAIN c.bySlug : \E i \in 1..Len(c.posts) : c.posts[i] = c.bySlug[k]

\* C2: while a handler holds the read lock the post list and the slug index
\* belong to one snapshot, and what a handler has copied is what the cache
\* held when the lock was last free: the old pair or the new one, no mix
C2_ReadersSeeOneSnapshot ==
    \A r \in Readers :
        /\ rd[r].pc = "held" => Consistent(cache) /\ cache = gen
        /\ rd[r].pc = "done" => rd[r].obs = rd[r].at

\* a handler holds the read lock while a pass with a new snapshot waits for
\* the write lock
C2_Witness ==
    \E r \in Readers :
        /\ rd[r].pc = "held"
        /\ th["loop"].pc = "lock"
        /\ PassSucceeded("loop")
        /\ cache.posts # <<>>
        /\ cache.posts # th["loop"].posts

\* C3: when syncOnce has left the critical section, lastSync is the time of
\* this attempt and lastErr the error this attempt returns, replaced or not
C3_StatusOfThisAttempt ==
    \A t \in Threads :
        th[t].pc \in AfterUnlockPcs =>
            /\ cache.lastSync = th[t].began
            /\ cache.lastErr = th[t].err

\* the second attempt has failed after a first one that succeeded
C3_Witness ==
    \E t \in Threads :
        /\ th[t].pc = "ret"
        /\ th[t].err = ErrNoneRendered
        /\ cache.lastSync = 2
        /\ gen.lastErr = ErrNoneRendered
        /\ cache.posts # <<>>

\* C4: outside the commit of a pass the cache holds the posts of the last
\* pass that fetchPosts ended with a nil error and a post, else the posts
\* loaded from disk at startup, else nothing
C4_ServesLastGoodPosts ==
    (\A t \in Threads : th[t].pc \notin {"lock", "setStatus", "setPosts", "setIndex"})
        => cache.posts = good

\* the posts loaded from disk are still served after a failed initial sync
C4_Witness ==
    /\ th["main"].pc = "serve"
    /\ cache.lastErr # Nil
    /\ cache.lastSync # ZeroTime
    /\ cache.posts # <<>>
    /\ \E r \in Readers : rd[r].pc = "done" /\ rd[r].obs.posts = good

\* C5: the refresh goroutine does not exist before the initial sync has
\* returned, so that the two callers of syncOnce are never both inside it
C5_OneSyncInFlight ==
    /\ ~(th["main"].pc \in SyncPcs /\ th["loop"].pc \in SyncPcs)
    /\ th["main"].pc \in SyncPcs \cup {"load", "callSync"} => th["loop"].pc = "off"

\* a tick arrives while the pass of the previous tick is writing the mirror
C5_Witness ==
    /\ th["loop"].pc = "writeTmp"
    /\ tick

\* the candidates of the pass of t that were fetched and rendered
Fetched(t) ==
    {th[t].mdFiles[i] : i \in 1..Len(th[t].mdFiles)} \ th[t].skipped

\* C6 as stated: a pass that skipped a candidate keeps the old snapshot
C6_PartialPassKeepsOld ==
    \A t \in Threads :
        th[t].pc \in AfterUnlockPcs /\ th[t].skipped # {} =>
            /\ cache.posts = th[t].pre.posts
            /\ cache.bySlug = th[t].pre.bySlug

\* C6 amended: a pass publishes exactly one post for every candidate it
\* fetched and rendered, leaving out the skipped ones, and keeps the old
\* snapshot only when it fetched no candidate at all
C6_PublishesWhatWasFetched ==
    \A t \in Threads :
        th[t].pc \in AfterUnlockPcs =>
            IF Fetched(t) = {}
            THEN /\ cache.posts = th[t].pre.posts
                 /\ cache.bySlug = th[t].pre.bySlug
            ELSE /\ {cache.posts[i].SourcePath : i \in 1..Len(cache.posts)} = Fetched(t)
                 /\ Len(cache.posts) = Cardinality(Fetched(t))

\* a pass that skipped one candidate has published the other
C6_Witness ==
    \E t \in Threads :
        /\ th[t].pc = "ret"
        /\ th[t].skipped # {}
        /\ Fetched(t) # {}
        /\ cache.posts = th[t].posts
        /\ cache.posts # th[t].pre.posts

\* the manifest entries of a post list
IndexEntries(ps) ==
    [i \in 1..Len(ps) |-> IndexEntry(ps[i])]

\* C7: the data directory is written by savePostsToDisk only, which runs
\* only in a pass with a nil error and a post, after that pass has published
\* its list and released the lock, and on that list; a completed save leaves
\* a manifest that lists the posts of the published snapshot
C7_MirrorFollowsPublish ==
    \A t \in Threads :
        /\ th[t].pc \in SavePcs =>
               /\ PassSucceeded(t)
               /\ cache.posts = th[t].posts
               /\ mu.writer # t
        /\ th[t].pc \in SyncPcs \ AfterUnlockPcs => disk = th[t].pre.disk
        /\ th[t].pc \in AfterUnlockPcs /\ ~PassSucceeded(t) => disk = th[t].pre.disk
        /\ th[t].pc = "ret" /\ th[t].wrote =>
               /\ disk.index # <<>>
               /\ disk.index[1].posts = IndexEntries(cache.posts)

\* a save has replaced the manifest of an earlier snapshot
C7_Witness ==
    \E t \in Threads :
        /\ th[t].pc = "ret"
        /\ th[t].wrote
        /\ th[t].pre.disk.index # <<>>
        /\ th[t].pre.disk.index # disk.index

\* slug, title, excerpt and source path of every post of a list
Meta(ps) ==
    [i \in 1..Len(ps) |->
        [Slug |-> ps[i].Slug, Title |-> ps[i].Title,
         Excerpt |-> ps[i].Excerpt, SourcePath |-> ps[i].SourcePath]]

\* C8: the posts loaded at startup have the slugs, titles, excerpts and
\* source paths, in order, of the posts of the last completed save
C8_SaveLoadRoundTrip ==
    th["main"].pc = "callSync" /\ saved # <<>> => Meta(cache.posts) = Meta(saved)

\* ------------------------------------------------------------------------
\* Properties of fetchPosts inside a pass
\* ------------------------------------------------------------------------

\* the positions of a pass after fetchPosts has returned
AfterFetchPcs ==
    SyncPcs \ {"fetchTree", "fetchFile"}

\* the index of the last post of ps whose slug is k
LastWithSlug(ps, k) ==
    LET is == {i \in 1..Len(ps) : ps[i].Slug = k}
    IN  CHOOSE i \in is : \A j \in is : j <= i

SlugFooBar ==
    <<"f","o","o","-","b","a","r">>

\* C11: after a successful pass every fetched candidate has its post in the
\* list, two posts of one slug included, and the slug index holds for each
\* slug the last post of the list with that slug: for data/foo/bar.md and
\* data/foo-bar.md, the post of data/foo-bar.md
C11_LastPostOfSlugIndexed ==
    \A t \in Threads :
        th[t].pc \in AfterUnlockPcs /\ PassSucceeded(t) =>
            /\ \A p \in Fetched(t) :
                   \E i \in 1..Len(cache.posts) : cache.posts[i].SourcePath = p
            /\ \A k \in DOMAIN cache.bySlug :
                   cache.bySlug[k] = cache.posts[LastWithSlug(cache.posts, k)]
            /\ Fetched(t) = {PathFooBar, PathFooDashBar} =>
                   /\ Len(cache.posts) = 2
                   /\ DOMAIN cache.bySlug = {SlugFooBar}
                   /\ cache.bySlug[SlugFooBar].SourcePath = PathFooDashBar

\* both files of the slug "foo-bar" were fetched and published, with
\* different titles
C11_Witness ==
    \E t \in Threads :
        /\ th[t].pc = "ret"
        /\ Fetched(t) = {PathFooBar, PathFooDashBar}
        /\ Len(cache.posts) = 2
        /\ cache.posts[1].Slug = cache.posts[2].Slug
        /\ cache.posts[1].Title # cache.posts[2].Title
        /\ cache.bySlug[SlugFooBar] = cache.posts[2]

\* the pass of t listed data/a.md and data/b.md, could not fetch a.md and
\* fetched b.md with the body "# Hello\nWorld"
ScenarioOnlyB(t) ==
    /\ th[t].pc \in AfterUnlockPcs
    /\ th[t].mdFiles = <<PathA, PathB>>
    /\ th[t].skipped = {PathA}
    /\ th[t].raw = MapPut(EmptyMap, <<"b">>, BodyHello)

\* C12 as stated: the one post of the scenario has the excerpt "World"
C12_ExcerptWithoutHeading ==
    \A t \in Threads :
        ScenarioOnlyB(t) =>
            /\ th[t].err = Nil
            /\ Len(cache.posts) = 1
            /\ cache.posts[1].Slug = <<"b">>
            /\ cache.posts[1].Title = <<"H","e","l","l","o">>
            /\ cache.posts[1].Excerpt = <<"W","o","r","l","d">>

\* C12 amended: the pass of the scenario succeeds and publishes exactly one
\* post, with slug "b", title "Hello" and excerpt "Hello World" (the heading
\* marker is removed from the excerpt, the heading text is not)
C12_ExcerptKeepsHeadingText ==
    \A t \in Threads :
        ScenarioOnlyB(t) =>
            /\ th[t].err = Nil
            /\ Len(cache.posts) = 1
            /\ cache.posts[1].Slug = <<"b">>
            /\ cache.posts[1].Title = <<"H","e","l","l","o">>
            /\ cache.posts[1].Excerpt = <<"H","e","l","l","o"," ","W","o","r","l","d">>
            /\ DOMAIN cache.bySlug = {<<"b">>}

\* the pass of the scenario has returned
C12_Witness ==
    \E t \in Threads :
        /\ ScenarioOnlyB(t)
        /\ th[t].pc = "ret"
        /\ th[t].asked = <<PathA, PathB>>

\* no entry of the tree is a blob under the content directory whose name
\* ends in ".md"
NoCandidate(tree) ==
    \A i \in 1..Len(tree) :
        ~ /\ tree[i].Type = "blob"
          /\ HasPrefix(tree[i].Path, Prefix)
          /\ HasSuffix(ToLower(tree[i].Path), MdExt)

\* the snapshot is what it was when the pass of t began
SnapshotKept(t) ==
    /\ cache.posts = th[t].pre.posts
    /\ cache.bySlug = th[t].pre.bySlug

\* C13: a pass whose listing succeeded without a candidate ends with the
\* no-markdown error, has fetched no file, never enters the swap or the
\* save, and leaves the snapshot as it was
C13_NoMarkdownKeepsSnapshot ==
    \A t \in Threads :
        th[t].pc \in AfterFetchPcs /\ th[t].listing.ok /\ NoCandidate(th[t].listing.tree) =>
            /\ th[t].err = ErrNoMarkdown
            /\ th[t].asked = <<>>
            /\ th[t].posts = <<>>
            /\ th[t].pc \notin {"setPosts", "setIndex"} \cup SavePcs
            /\ SnapshotKept(t)

\* a pass found no markdown file while the cache held posts
C13_Witness ==
    \E t \in Threads :
        /\ th[t].pc = "ret"
        /\ th[t].listing.ok
        /\ NoCandidate(th[t].listing.tree)
        /\ th[t].err = ErrNoMarkdown
        /\ cache.lastErr = ErrNoMarkdown
        /\ cache.posts # <<>>

\* C14: a pass whose tree request failed ends with the listing error, has
\* fetched no file and leaves the snapshot as it was; a tree request that
\* succeeded never gives the listing error, whatever the filter keeps
C14_ListingErrorKeepsSnapshot ==
    \A t \in Threads :
        th[t].pc \in AfterFetchPcs =>
            /\ ~th[t].listing.ok =>
                   /\ th[t].err = ErrFetchTree
                   /\ th[t].asked = <<>>
                   /\ th[t].posts = <<>>
                   /\ th[t].pc \notin {"setPosts", "setIndex"} \cup SavePcs
                   /\ SnapshotKept(t)
            /\ th[t].listing.ok => th[t].err # ErrFetchTree

\* the tree request failed while the cache held posts
C14_Witness ==
    \E t \in Threads :
        /\ th[t].pc = "ret"
        /\ ~th[t].listing.ok
        /\ th[t].err = ErrFetchTree
        /\ cache.lastErr = ErrFetchTree
        /\ cache.posts # <<>>

\* the paths of the candidates of a tree
CandidatePaths(tree) ==
    {tree[i].Path : i \in {j \in 1..Len(tree) : ~NoCandidate(<<tree[j]>>)}}

StrictlyAscending(ps) ==
    \A i \in 1..(Len(ps) - 1) : StrLess(ps[i], ps[i+1])

\* C15: in a pass every candidate of the listing is given to ghFetchFile,
\* once and in ascending path order, whatever happened to the candidates
\* before it; the result holds one post for every candidate that was fetched
\* and rendered, and the pass returns no error when there is such a candidate
C15_FailedFileIsSkipped ==
    \A t \in Threads :
        /\ th[t].pc = "fetchFile" =>
               th[t].asked = SubSeq(th[t].mdFiles, 1, th[t].i - 1)
        /\ th[t].pc \in AfterFetchPcs /\ th[t].listing.ok
              /\ ~NoCandidate(th[t].listing.tree) =>
               /\ {th[t].asked[i] : i \in 1..Len(th[t].asked)}
                      = CandidatePaths(th[t].listing.tree)
               /\ StrictlyAscending(th[t].asked)
               /\ {th[t].posts[i].SourcePath : i \in 1..Len(th[t].posts)} = Fetched(t)
               /\ Len(th[t].posts) = Cardinality(Fetched(t))
               /\ Fetched(t) # {} => th[t].err = Nil

\* the first candidate failed and the second was fetched after it
C15_Witness ==
    \E t \in Threads :
        /\ th[t].pc = "lock"
        /\ th[t].asked = <<PathA, PathB>>
        /\ th[t].skipped = {PathA}
        /\ Len(th[t].posts) = 1
        /\ th[t].err = Nil

\* C16: a pass with candidates of which none was fetched and rendered ends
\* with the nothing-rendered error and no posts and keeps the snapshot, and
\* the swap is never entered with an empty post list
C16_NothingRenderedKeepsSnapshot ==
    \A t \in Threads :
        /\ th[t].pc \in AfterFetchPcs /\ th[t].mdFiles # <<>> /\ Fetched(t) = {} =>
               /\ th[t].err = ErrNoneRendered
               /\ th[t].posts = <<>>
               /\ th[t].pc \notin {"setPosts", "setIndex"} \cup SavePcs
               /\ SnapshotKept(t)
        /\ th[t].pc \in {"setPosts", "setIndex"} => th[t].posts # <<>>
        /\ th[t].pc \in AfterUnlockPcs /\ cache.posts = <<>> => th[t].pre.posts = <<>>

\* both candidates of a pass failed while the cache held posts
C16_Witness ==
    \E t \in Threads :
        /\ th[t].pc = "ret"
        /\ Len(th[t].mdFiles) = 2
        /\ Cardinality(th[t].skipped) = 2
        /\ th[t].err = ErrNoneRendered
        /\ cache.posts # <<>>

StrictlyDescending(ps) ==
    \A i \in 1..(Len(ps) - 1) : StrLess(ps[i+1].SourcePath, ps[i].SourcePath)

\* C17: the post list of a fetchPosts that returned no error, and the post
\* list of the cache after the pass has published it, are in strictly
\* descending order of SourcePath
C17_PostsDescending ==
    \A t \in Threads :
        /\ th[t].pc \in AfterFetchPcs /\ th[t].err = Nil =>
               StrictlyDescending(th[t].posts)
        /\ th[t].pc \in AfterUnlockPcs /\ PassSucceeded(t) =>
               StrictlyDescending(cache.posts)

\* two posts were fetched in ascending order and published in descending order
C17_Witness ==
    \E t \in Threads :
        /\ th[t].pc = "ret"
        /\ th[t].asked = <<PathA, PathB>>
        /\ Len(cache.posts) = 2
        /\ cache.posts[1].SourcePath = PathB
        /\ cache.posts[2].SourcePath = PathA

\* ------------------------------------------------------------------------
\* Properties of the disk mirror
\* ------------------------------------------------------------------------

\* C19: a process calls loadPostsFromDisk once: not yet while main is at the
\* load, when no sync has begun, no goroutine exists beside main and the
\* cache is as it was made; and exactly once from then on, so that every
\* pass begins, publishes and saves after the load and the cache population
C19_LoadedOnceBeforeSync ==
    /\ loads <= 1
    /\ th["main"].pc = "load" =>
           /\ loads = 0
           /\ cache = NewCache
           /\ th["loop"].pc = "off"
           /\ mu.writer = None
    /\ th["main"].pc # "load" => loads = 1
    /\ \A t \in Threads : th[t].pc \in SyncPcs => loads = 1

\* the refresh goroutine begins a pass over posts the load or a sync put in
\* the cache, long after the one load
C19_Witness ==
    /\ loads = 1
    /\ th["main"].pc = "serve"
    /\ th["loop"].pc = "fetchTree"
    /\ th["loop"].pre.posts # <<>>
    /\ cache.lastSync # ZeroTime

\* index.json is absent or holds a manifest that was written whole
ManifestWhole(d) ==
    d.index = <<>> \/ d.index[1].whole

\* C20: index.json never holds a partial manifest, at any step of a save or
\* after the process was killed at any step; during a save it is the
\* manifest the pass found, and after the save it is that manifest or, when
\* the rename was done, the complete manifest of the posts of the pass
C20_ManifestNeverPartial ==
    /\ ManifestWhole(disk)
    /\ \A t \in Threads :
           /\ th[t].pc \in SavePcs => disk.index = th[t].pre.disk.index
           /\ th[t].pc = "ret" =>
                  disk.index = IF th[t].wrote
                               THEN <<BuildIndex(th[t].posts, th[t].began)>>
                               ELSE th[t].pre.disk.index

\* the process was killed after a write of index.json.tmp that failed half
\* way, and starts again on the whole manifest of the save before
C20_Witness ==
    /\ th["main"].pc = "load"
    /\ disk.tmp # <<>>
    /\ ~disk.tmp[1].whole
    /\ disk.index # <<>>
    /\ disk.index[1].whole
    /\ disk.index[1].posts # <<>>

\* ------------------------------------------------------------------------
\* Specification of the startup load alone: main starts on every data
\* directory of DiskInputs and calls loadPostsFromDisk
\* ------------------------------------------------------------------------

\* the post lists a pass can have given to savePostsToDisk
SavedLists ==
    LET a == MakePost(PathA, BodyLatin1)
        b == MakePost(PathB, BodyHello)
        fb == MakePost(PathFooBar, BodyHello)
        fdb == MakePost(PathFooDashBar, BodyText)
    IN  {SortPostsDesc(ps) : ps \in {<<a>>, <<b>>, <<a, b>>, <<fb>>, <<fdb>>, <<fb, fdb>>}}

\* index.json: missing, cut short, or the manifest of a saved list
IndexInputs ==
    {<<>>, <<TruncatedIndex>>} \cup {<<BuildIndex(ps, 1)>> : ps \in SavedLists}

\* the body files: each slug has no file (it was never written, or was
\* removed), a body that was fetched, or an empty file (a write cut short)
FileInputs ==
    LET slugs == {SlugOfPath(PathA), SlugOfPath(PathB), SlugOfPath(PathFooBar)}
    IN  UNION {[S -> {BodyHello, BodyText, BodyLatin1, <<>>}] : S \in SUBSET slugs}

DiskInputs ==
    {[files |-> f, index |-> ix, tmp |-> <<>>] : f \in FileInputs, ix \in IndexInputs}

LoadInit ==
    /\ \E d \in DiskInputs : Boot(d)
    /\ now = 0
    /\ saved = <<>>
    /\ SlugOff
    /\ ExcerptOff
    /\ TitleOff
    /\ PathOff
    /\ OthersOff

LoadNext ==
    StartupLoad

LoadSpec ==
    LoadInit /\ [][LoadNext]_vars

\* the body file of a manifest entry can be read
Readable(d, it) ==
    JsonParseString(it.slug) \in DOMAIN d.files

\* C21: loadPostsFromDisk skips a manifest entry whose body file cannot be
\* read and returns every other entry of the manifest, in the order of the
\* manifest and rendered from its body file, with a nil error; a list that
\* is not empty becomes the post list of the cache
C21_UnreadableBodySkipped ==
    (th["main"].pc = "callSync" /\ disk.index # <<>> /\ disk.index[1].whole) =>
        LET its == disk.index[1].posts
            kept == SelectSeq(its, LAMBDA it : Readable(disk, it))
            ps == th["main"].ps
        IN  /\ th["main"].e = Nil
            /\ Len(ps) = Len(kept)
            /\ \A i \in 1..Len(ps) :
                   /\ ps[i].Slug = JsonParseString(kept[i].slug)
                   /\ ps[i].SourcePath = JsonParseString(kept[i].source_path)
                   /\ ps[i].HTML = Convert(disk.files[ps[i].Slug])
            /\ Len(ps) > 0 => cache.posts = ps

\* a manifest of two posts of which one has lost its body file
C21_Witness ==
    /\ th["main"].pc = "callSync"
    /\ disk.index # <<>>
    /\ disk.index[1].whole
    /\ Len(disk.index[1].posts) = 2
    /\ ~Readable(disk, disk.index[1].posts[1])
    /\ Readable(disk, disk.index[1].posts[2])
    /\ th["main"].e = Nil
    /\ Len(th["main"].ps) = 1
    /\ cache.posts = th["main"].ps

\* C22: when savePostsToDisk fails after a pass that fetched posts, the
\* published snapshot is not rolled back, lastErr stays nil and syncOnce
\* returns a nil error; a later pass that succeeds saves again, and a save
\* that completes leaves the manifest of the list of that pass
C22_SaveFailureKeepsPublish ==
    \A t \in Threads :
        (th[t].pc = "ret" /\ Len(th[t].posts) > 0) =>
            /\ th[t].err = Nil
            /\ cache.lastErr = Nil
            /\ cache.lastSync = th[t].began
            /\ cache.posts = th[t].posts
            /\ cache.bySlug = IndexInto(EmptyMap, th[t].posts)
            /\ th[t].wrote =>
                   /\ saved = th[t].posts
                   /\ disk.index = <<BuildIndex(th[t].posts, th[t].began)>>

\* the second pass has written the manifest that the save of the first
\* pass, which published its posts, did not write
C22_Witness ==
    \E t \in Threads :
        /\ th[t].pc = "ret"
        /\ th[t].began = 2
        /\ th[t].wrote
        /\ th[t].pre.posts # <<>>
        /\ th[t].pre.disk.index = <<>>
        /\ disk.index = <<BuildIndex(cache.posts, 2)>>

\* ------------------------------------------------------------------------
\* Specification of the handlers alone: the process serves, no pass is
\* running, and the cache is any of CacheInputs
\* ------------------------------------------------------------------------

\* the caches a run can have after its last pass: the posts of a load or of
\* a pass, or none, and the status of a pass that ended with any error or
\* with none
CacheInputs ==
    {[posts |-> ps, bySlug |-> IndexInto(EmptyMap, ps), lastSync |-> 1, lastErr |-> e] :
        ps \in SavedLists \cup {<<>>},
        e \in {Nil, ErrFetchTree, ErrNoMarkdown, ErrNoneRendered}}
        \ {[posts |-> <<>>, bySlug |-> EmptyMap, lastSync |-> 1, lastErr |-> Nil]}

ServeInit ==
    /\ cache \in CacheInputs
    /\ gen = cache
    /\ mu = [writer |-> None, readers |-> {}]
    /\ th = [t \in Threads |-> IF t = "main" THEN NoLocals("serve") ELSE NoLocals("wait")]
    /\ tick = FALSE
    /\ rd = [r \in Readers |-> IdleReader]
    /\ disk = EmptyDisk
    /\ good = cache.posts
    /\ loads = 1
    /\ now = 1
    /\ saved = <<>>
    /\ SlugOff
    /\ ExcerptOff
    /\ TitleOff
    /\ PathOff
    /\ OthersOff

\* the steps of the handlers, those of a request that the post handler turns
\* away before it takes the lock included
RequestNext ==
    \/ ServeNext
    \/ \E r \in Readers : HandlerNotFound(r)

ServeSpec ==
    ServeInit /\ [][RequestNext]_vars

\* index.json is missing or does not parse
NoManifest(d) ==
    \/ d.index = <<>>
    \/ ~d.index[1].whole

\* the positions of main
MainPcs ==
    {"load", "callSync", "spawn", "listen", "serve"} \cup SyncPcs

\* C23: a missing or corrupt manifest at startup is no prior state: the
\* load returns an error, the cache stays empty and main can go on to the
\* initial sync; main never ends and is never stuck before it serves, also
\* when the initial sync has failed, and it serves only after that sync
C23_StartsWithoutPriorState ==
    /\ th["main"].pc \in MainPcs
    /\ th["main"].pc # "serve" => ENABLED (MainStep \/ Pass("main"))
    /\ th["main"].pc = "callSync" /\ NoManifest(disk) =>
           /\ th["main"].e # Nil
           /\ cache = NewCache
           /\ ENABLED SyncBegin("main")
    /\ th["main"].pc = "ret" /\ th["main"].err # Nil => ENABLED Return("main")
    /\ th["main"].pc \in {"spawn", "listen", "serve"} => cache.lastSync # ZeroTime

\* the process serves an empty cache: the manifest was corrupt and the
\* initial sync failed
C23_Witness ==
    /\ th["main"].pc = "serve"
    /\ disk.index = <<TruncatedIndex>>
    /\ cache.posts = <<>>
    /\ cache.lastErr # Nil
    /\ cache.lastSync = 1

C25_StatusChangedBySyncOnly ==
    [][/\ (cache'.lastSync # cache.lastSync \/ cache'.lastErr # cache.lastErr) =>
              \E t \in Threads :
                  /\ th[t].pc = "setStatus"
                  /\ th'[t].pc # "setStatus"
                  /\ cache'.lastSync = th[t].began
                  /\ cache'.lastErr = th[t].err
       /\ (cache.lastErr # Nil /\ cache'.lastErr = Nil) =>
              \E t \in Threads : th[t].pc = "setStatus" /\ th[t].err = Nil
      ]_vars

\* a second pass is under way and has not recorded its status: the status
\* is still the one of the first pass, which failed
C25_Witness ==
    \E t \in Threads :
        /\ th[t].pc = "lock"
        /\ th[t].began = 2
        /\ th[t].err = Nil
        /\ cache.lastErr # Nil
        /\ cache.lastSync = 1

\* C26: the handlers only read the cache: a step of a handler leaves the
\* cache and the data directory as they are, what a handler has copied out
\* of the cache is not altered by any later step, and the cache changes only
\* in the startup load and in the steps of a pass that holds the write lock
C26_HandlersOnlyRead ==
    [][/\ rd' # rd => (cache' = cache /\ disk' = disk)
       /\ \A r \in Readers :
              (rd[r].pc = "done" /\ rd'[r].pc = "done") => rd'[r].obs = rd[r].obs
       /\ cache' # cache =>
              \/ th["main"].pc = "load"
              \/ \E t \in Threads :
                     /\ th[t].pc \in {"setStatus", "setPosts", "setIndex"}
                     /\ mu.writer = t
                     /\ rd' = rd
      ]_vars

\* a handler holds the post list it copied while the cache has since been
\* given another list
C26_Witness ==
    \E r \in Readers :
        /\ rd[r].pc = "done"
        /\ rd[r].req.kind = "index"
        /\ rd[r].obs.posts # <<>>
        /\ cache.posts # <<>>
        /\ cache.posts # rd[r].obs.posts

\* C27: when syncOnce returns, the status of the pass and, after a pass
\* that fetched posts, its post list and slug index are in the cache and the
\* write lock is released; the return changes nothing in the cache, and the
\* cache is changed only by the startup load and by a goroutine that is
\* inside syncOnce and holds the write lock, so that no update of a pass
\* comes after its return
C27_UpdatesBeforeReturn ==
    [][/\ \A t \in Threads :
              (th[t].pc = "ret" /\ th'[t].pc # "ret") =>
                  /\ cache.lastSync = th[t].began
                  /\ cache.lastErr = th[t].err
                  /\ PassSucceeded(t) =>
                         /\ cache.posts = th[t].posts
                         /\ cache.bySlug = IndexInto(EmptyMap, th[t].posts)
                  /\ mu.writer # t
                  /\ cache' = cache
       /\ cache' # cache =>
              \/ th["main"].pc = "load"
              \/ \E t \in Threads :
                     /\ th[t].pc \in {"setStatus", "setPosts", "setIndex"}
                     /\ th'[t].pc \in {"setPosts", "setIndex", "unlock"}
                     /\ mu.writer = t
      ]_vars

\* the second pass has returned to the refresh loop and the cache holds its
\* status and its posts
C27_Witness ==
    /\ th["loop"].pc = "wait"
    /\ cache.lastSync = 2
    /\ cache.lastErr = Nil
    /\ cache.posts # <<>>
    /\ cache.posts = good
    /\ cache.bySlug = IndexInto(EmptyMap, good)
    /\ mu.writer = None

\* C28: whatever lastErr holds, the answer of a handler is never an error
\* of the server made by the handler: the index page is the template on the
\* post list of the snapshot the handler read, a post page is the template
\* on the post of the slug exactly when the slug is not empty and is a key
\* of the slug index of that snapshot, and it is not-found otherwise
C28_ServedWhateverLastErr ==
    \A r \in Readers :
        rd[r].pc = "done" =>
            LET req == rd[r].req
                resp == Response(req, rd[r].obs)
            IN  /\ resp.kind \in {"render", "notFound"}
                /\ req.kind = "index" =>
                       /\ resp.kind = "render"
                       /\ resp.name = "index"
                       /\ resp.Posts = rd[r].at.posts
                /\ req.kind = "post" =>
                       /\ resp.kind = "render" <=> (req.slug # <<>> /\ rd[r].at.ok)
                       /\ resp.kind = "render" =>
                              /\ resp.name = "post"
                              /\ resp.Post = rd[r].at.p
                              /\ resp.Post.Slug = req.slug
                /\ resp.kind = "render" => resp.LastErr = rd[r].at.lastErr

\* a post page is about to be served while lastErr holds the error of the
\* last pass
C28_Witness ==
    \E r \in Readers :
        /\ rd[r].pc = "done"
        /\ rd[r].req.kind = "post"
        /\ rd[r].obs.lastErr # Nil
        /\ Response(rd[r].req, rd[r].obs).kind = "render"

\* ------------------------------------------------------------------------
\* Specification of the title alone: every document of at most MaxLen
\* symbols of TitleAlphabet, fetched as data/b.md, is given its title
\* ------------------------------------------------------------------------

TitleAlphabet ==
    {"#", " ", "LF", "a"}

TitleInputs ==
    UNION {[1..n -> TitleAlphabet] : n \in 0..MaxLen}

TitleInit ==
    /\ SysInit
    /\ SlugOff
    /\ ExcerptOff
    /\ PathOff
    /\ OthersOff
    /\ titleIn \in TitleInputs
    /\ titleOut = <<>>
    /\ titlePc = "input"

\* title := extractTitle(body); if title == "" { title = base name }
TitleApply ==
    /\ titlePc = "input"
    /\ titleOut' = TitleOf(PathB, titleIn)
    /\ titlePc' = "done"
    /\ UNCHANGED <<sysVars, slugVars, exVars, titleIn, pathVars, otherVars>>

TitleNext ==
    TitleApply

TitleSpec ==
    TitleInit /\ [][TitleNext]_vars

\* the indexes of the text of the line that starts at p, when the line is a
\* level-1 heading: blanks, one "#", at least one blank, then text
H1LineText(md, p) ==
    LET end == LineEnd(md, p)
        inked == {i \in p..end : md[i] # " "}
        a == IF inked = {} THEN 0 ELSE CHOOSE i \in inked : \A j \in inked : i <= j
        text == {i \in (a + 2)..end : md[i] # " "}
    IN  IF a > 0 /\ md[a] = "#" /\ a + 1 <= end /\ md[a+1] = " "
        THEN text
        ELSE {}

\* the trimmed text of the first line that is a level-1 heading with a
\* text, <<>> when the document has none
FirstH1Text(md) ==
    LET hs == {p \in 1..Len(md) : LineStart(md, p) /\ H1LineText(md, p) # {}}
    IN  IF hs = {} THEN <<>>
        ELSE LET p == CHOOSE x \in hs : \A y \in hs : x <= y
                 text == H1LineText(md, p)
             IN  SubSeq(md, CHOOSE i \in text : \A j \in text : i <= j,
                            CHOOSE i \in text : \A j \in text : j <= i)

\* C29: the title of a post is the trimmed text of the first level-1
\* heading line of its document when there is one, and otherwise the base
\* name of its source path without the extension; headings of level 2 and
\* deeper do not give a title
C29_TitleIsFirstH1 ==
    titlePc = "done" =>
        titleOut = IF FirstH1Text(titleIn) = <<>>
                   THEN BaseNoExt(PathB)
                   ELSE FirstH1Text(titleIn)

\* ------------------------------------------------------------------------
\* Specification of the candidate filter and of the slug of a path alone:
\* every item of PathInputs goes through the filter of fetchPosts and, when
\* it is kept, is given its slug
\* ------------------------------------------------------------------------

\* the markdown extension in every letter case
MdExts ==
    {<<".", x, y>> : x \in {"m", "M"}, y \in {"d", "D"}}

PathStems ==
    UNION {[1..n -> {"a", "B", "/", "."}] : n \in 1..MaxStem}

PathInputs ==
    {[Path |-> dir \o stem \o ext, Type |-> ty] :
        dir \in {Prefix, <<"d","o","c","s","/">>},
        stem \in PathStems,
        ext \in MdExts \cup {<<".","t","x","t">>},
        ty \in {"blob", "tree"}}

PathInit ==
    /\ SysInit
    /\ SlugOff
    /\ ExcerptOff
    /\ TitleOff
    /\ OthersOff
    /\ pathIn \in PathInputs
    /\ pathOut = [kept |-> FALSE, slug |-> <<>>]
    /\ pathPc = "input"

\* the three tests of the filter, then rel and slug of a path that is kept
PathApply ==
    /\ pathPc = "input"
    /\ pathOut' = IF IsCandidate(pathIn)
                  THEN [kept |-> TRUE, slug |-> SlugOfPath(pathIn.Path)]
                  ELSE [kept |-> FALSE, slug |-> <<>>]
    /\ pathPc' = "done"
    /\ UNCHANGED <<sysVars, slugVars, exVars, titleVars, pathIn, otherVars>>

PathNext ==
    PathApply

PathSpec ==
    PathInit /\ [][PathNext]_vars

\* p without the content directory prefix and without its last three
\* symbols, the extension
StemOf(p) ==
    SubSeq(p, Len(Prefix) + 1, Len(p) - Len(MdExt))

\* C30: a blob under the content directory whose name ends with the
\* markdown extension in any letter case is kept, and its slug is made of
\* the path without the prefix and without the extension, so that the
\* letters of the extension are not in the slug
C30_SlugDropsExtension ==
    pathPc = "done" =>
        LET p == pathIn.Path
            candidate == /\ pathIn.Type = "blob"
                         /\ HasPrefix(p, Prefix)
                         /\ \E ext \in MdExts : HasSuffix(p, ext)
        IN  /\ pathOut.kept <=> candidate
            /\ candidate => pathOut.slug = slugify(StemOf(p))

\* ------------------------------------------------------------------------
\* The variant without disk mirror (flag -refresh): its passes, one after
\* the other, the initial one by main and the later ones by the refresh
\* goroutine
\* ------------------------------------------------------------------------

\* syncOnce is called: by main, then on every tick of the refresh ticker
PlainSyncBegin ==
    /\ plain.l.pc \in {"callSync", "wait"}
    /\ plain.now < MaxPasses
    /\ plain' = [plain EXCEPT
                     !.now = plain.now + 1,
                     !.l = [PlainLocals("fetchTree") EXCEPT
                               !.pre = [posts |-> plain.cache.posts,
                                        bySlug |-> plain.cache.bySlug]]]
    /\ UNCHANGED <<sysVars, slugVars, exVars, titleVars, pathVars, det, fr, cm>>

\* mdFiles of the variant: the candidates in the order of the tree response
PlainMdFilesOf(tree) ==
    LET cands == SelectSeq(tree, IsCandidate)
    IN  [i \in 1..Len(cands) |-> cands[i].Path]

\* the end of the variant's fetchPosts: sort.Slice and return posts, nil
PlainFetchPostsReturn(l) ==
    [l EXCEPT !.posts = SortPostsDesc(l.posts), !.pc = "lock"]

\* the tree request of the variant's fetchPosts and its filter
PlainFetchTreeResult(l, resp) ==
    IF ~resp.ok
    THEN [l EXCEPT !.listing = resp, !.err = ErrFetchTree, !.pc = "lock"]
    ELSE IF PlainMdFilesOf(resp.tree) = <<>>
         THEN PlainFetchPostsReturn([l EXCEPT !.listing = resp])
         ELSE [l EXCEPT !.listing = resp, !.mdFiles = PlainMdFilesOf(resp.tree),
                        !.i = 1, !.pc = "fetchFile"]

PlainFetchTree ==
    /\ plain.l.pc = "fetchTree"
    /\ \E resp \in TreeOutcomes :
           plain' = [plain EXCEPT !.l = PlainFetchTreeResult(plain.l, resp)]
    /\ UNCHANGED <<sysVars, slugVars, exVars, titleVars, pathVars, det, fr, cm>>

\* one iteration of the loop over mdFiles of the variant
PlainFetchFileResult(l, out) ==
    LET p == l.mdFiles[l.i]
        got == IF out.ok /\ ConvertOk(out.body)
               THEN [l EXCEPT !.posts = Append(l.posts, MakePost(p, out.body))]
               ELSE l
    IN  IF l.i < Len(l.mdFiles)
        THEN [got EXCEPT !.i = l.i + 1]
        ELSE PlainFetchPostsReturn(got)

PlainFetchFile ==
    /\ plain.l.pc = "fetchFile"
    /\ \E out \in FetchOutcomes(plain.l.mdFiles[plain.l.i]) :
           plain' = [plain EXCEPT !.l = PlainFetchFileResult(plain.l, out)]
    /\ UNCHANGED <<sysVars, slugVars, exVars, titleVars, pathVars, det, fr, cm>>

\* a swap that also needs a post, as in the variant with the disk mirror
PlainShouldReplaceNonEmpty(err, posts) ==
    /\ err = Nil
    /\ Len(posts) > 0

\* if err == nil
PlainShouldReplace(err, posts) ==
    err = Nil

\* cache.mu.Lock() to the deferred cache.mu.Unlock(): no other goroutine
\* of the model takes the lock, so that the section is one step
PlainPublish ==
    /\ plain.l.pc = "lock"
    /\ plain' = [plain EXCEPT
                     !.cache = IF PlainShouldReplace(plain.l.err, plain.l.posts)
                               THEN [posts |-> plain.l.posts,
                                     bySlug |-> IndexInto(EmptyMap, plain.l.posts),
                                     lastSync |-> plain.now,
                                     lastErr |-> plain.l.err]
                               ELSE StatusAfter(plain.cache, plain.now, plain.l.err),
                     !.l.pc = "ret"]
    /\ UNCHANGED <<sysVars, slugVars, exVars, titleVars, pathVars, det, fr, cm>>

\* return err: the caller logs it and waits for the next tick
PlainReturn ==
    /\ plain.l.pc = "ret"
    /\ plain' = [plain EXCEPT !.l.pc = "wait"]
    /\ UNCHANGED <<sysVars, slugVars, exVars, titleVars, pathVars, det, fr, cm>>

PlainInit ==
    /\ SysInit
    /\ SlugOff
    /\ ExcerptOff
    /\ TitleOff
    /\ PathOff
    /\ DetOff
    /\ FrOff
    /\ CmOff
    /\ plain = PlainBoot("callSync")

PlainNext ==
    \/ PlainSyncBegin
    \/ PlainFetchTree
    \/ PlainFetchFile
    \/ PlainPublish
    \/ PlainReturn

PlainSpec ==
    PlainInit /\ [][PlainNext]_vars

\* C31: in the variant without disk mirror the post list and the slug index
\* are replaced by every pass that ends with a nil error, a pass with an
\* empty result included, and kept by every pass that ends with an error; a
\* listing without markdown files is not an error, so that such a pass
\* leaves an empty cache
C31_PlainReplacesOnNilError ==
    plain.l.pc = "ret" =>
        /\ plain.cache.lastErr = plain.l.err
        /\ plain.cache.lastSync = plain.now
        /\ IF plain.l.err = Nil
           THEN /\ plain.cache.posts = plain.l.posts
                /\ plain.cache.bySlug = IndexInto(EmptyMap, plain.l.posts)
           ELSE /\ plain.cache.posts = plain.l.pre.posts
                /\ plain.cache.bySlug = plain.l.pre.bySlug
        /\ plain.l.err = Nil <=> plain.l.listing.ok
        /\ (plain.l.listing.ok /\ NoCandidate(plain.l.listing.tree)) =>
               /\ plain.cache.posts = <<>>
               /\ plain.cache.bySlug = EmptyMap

\* a pass over a directory without markdown files has emptied a cache that
\* held posts
C31_Witness ==
    /\ plain.l.pc = "ret"
    /\ plain.l.pre.posts # <<>>
    /\ plain.l.listing.ok
    /\ NoCandidate(plain.l.listing.tree)
    /\ plain.l.err = Nil
    /\ plain.cache.posts = <<>>
    /\ plain.cache.lastErr = Nil

\* the positions between cache.mu.Lock() and cache.mu.Unlock()
LockedPcs ==
    {"setStatus", "setPosts", "setIndex", "unlock"}

\* the posts or the post, the time and the error a handler shows
Triple(o) ==
    [posts |-> o.posts, ok |-> o.ok, p |-> o.p, lastSync |-> o.lastSync,
     lastErr |-> o.lastErr]

\* C32: the status update and the swap of a pass are one critical section:
\* a goroutine between the two holds the write lock and no handler holds
\* the read lock, the cache a handler reads under the read lock is the
\* cache as the last critical section left it, and the posts (or the post),
\* lastSync and lastErr a handler has copied are those of that one cache
C32_StatusAndSwapTogether ==
    /\ \A t \in Threads :
           th[t].pc \in LockedPcs =>
               /\ mu.writer = t
               /\ mu.readers = {}
               /\ \A r \in DOMAIN rd : rd[r].pc # "held"
    /\ \A r \in DOMAIN rd :
           /\ rd[r].pc = "held" =>
                  /\ r \in mu.readers
                  /\ cache = gen
                  /\ Triple(Observe(cache, rd[r].req)) = Triple(Observe(gen, rd[r].req))
           /\ rd[r].pc = "done" => Triple(rd[r].obs) = Triple(rd[r].at)

\* a handler shows the posts and the status of the first pass while the
\* cache holds the posts and the status of the second
C32_Witness ==
    \E r \in DOMAIN rd :
        /\ rd[r].pc = "done"
        /\ rd[r].req.kind = "index"
        /\ rd[r].obs.posts # <<>>
        /\ rd[r].obs.lastSync = 1
        /\ rd[r].obs.lastErr = Nil
        /\ cache.lastSync = 2
        /\ cache.lastErr = Nil
        /\ cache.posts # <<>>
        /\ cache.posts # rd[r].obs.posts

\* ---------------------------------------------------------------------
\* Two requests beside the refresh goroutine: the server after a startup
\* without a manifest and a failed initial sync, its handlers registered
\* ---------------------------------------------------------------------

Handlers ==
    {"h1", "h2"}

LockInit ==
    /\ cache = StatusAfter(NewCache, 1, ErrFetchTree)
    /\ gen = cache
    /\ mu = [writer |-> None, readers |-> {}]
    /\ th = [t \in Threads |-> IF t = "main" THEN NoLocals("serve") ELSE NoLocals("wait")]
    /\ tick = FALSE
    /\ rd = [r \in Handlers |-> IdleReader]
    /\ disk = EmptyDisk
    /\ good = <<>>
    /\ loads = 1
    /\ now = 1
    /\ saved = <<>>
    /\ SlugOff
    /\ ExcerptOff
    /\ TitleOff
    /\ PathOff
    /\ OthersOff

LockNext ==
    \/ TickerFire
    \/ Pass("loop")
    \/ \E r \in Handlers :
           \/ HandlerRLock(r)
           \/ HandlerRead(r)
           \/ HandlerRespond(r)

LockSpec ==
    LockInit /\ [][LockNext]_vars

\* the positions of a pass at which it talks to the remote
NetworkPcs ==
    {"fetchTree", "fetchFile"}

\* the positions of a pass at which it writes the mirror
DiskPcs ==
    {"mkdir", "writeBody", "writeTmp", "rename"}

\* C33: a pass holds the write lock between its Lock and its Unlock only;
\* while a pass lists, fetches or writes the mirror nobody holds the write
\* lock and a request that arrives takes the read lock at once, whether or
\* not another request holds it; a request that holds the read lock reads
\* without waiting
C33_LockOnlyAroundSwap ==
    /\ \A t \in Threads : mu.writer = t <=> th[t].pc \in LockedPcs
    /\ (\E t \in Threads : th[t].pc \in NetworkPcs \cup DiskPcs) =>
           /\ mu.writer = None
           /\ \A r \in Handlers : rd[r].pc = "idle" => ENABLED HandlerRLock(r)
    /\ \A r \in Handlers :
           rd[r].pc = "held" => r \in mu.readers /\ ENABLED HandlerRead(r)

\* one request holds the read lock, the pass writes a body file, and the
\* other request can take the read lock
C33_Witness ==
    /\ th["loop"].pc = "writeBody"
    /\ mu.writer = None
    /\ rd["h1"].pc = "held"
    /\ rd["h2"].pc = "idle"
    /\ ENABLED HandlerRLock("h2")

\* the HTML of each post of a list, in the order of the list
HTMLOf(ps) ==
    [i \in 1..Len(ps) |-> ps[i].HTML]

\* the first run made one pass and mirrored it, the process was started
\* again and has loaded the mirror
RestartedOnMirror ==
    /\ th["main"].pc = "callSync"
    /\ now = 1
    /\ saved # <<>>

\* C34: after one mirrored pass and a restart, each post loaded from the
\* mirror has the HTML that the pass rendered from the body of the post's
\* own source path, and the post the slug index holds for a slug has the
\* HTML of the post the index held for that slug before the restart
C34_MirrorBodyOfOwnPath ==
    RestartedOnMirror =>
        /\ HTMLOf(cache.posts) = HTMLOf(saved)
        /\ \A s \in DOMAIN cache.bySlug :
               cache.bySlug[s].HTML = IndexInto(EmptyMap, saved)[s].HTML

\* the same with no slug shared by two posts of the mirrored list
C34_DistinctSlugs ==
    (RestartedOnMirror /\ \A i, j \in 1..Len(saved) : saved[i].Slug = saved[j].Slug => i = j)
        => HTMLOf(cache.posts) = HTMLOf(saved)

\* ---------------------------------------------------------------------
\* A save over the mirror of an earlier snapshot: two files of the remote
\* were mirrored, either may have been edited since, the refresh goroutine
\* has published the new snapshot and is about to save it; the process
\* may be stopped and started again at any point
\* ---------------------------------------------------------------------

EditedPaths ==
    {PathA, PathB}

\* the content of each file at the time of a pass
Edits ==
    [EditedPaths -> {BodyHello, BodyText}]

\* what fetchPosts returns for the two files: the posts and the raw bodies
SnapshotOf(b) ==
    SortPostsDesc(<<MakePost(PathA, b[PathA]), MakePost(PathB, b[PathB])>>)

RawOf(b) ==
    MapPut(MapPut(EmptyMap, SlugOfPath(PathA), b[PathA]), SlugOfPath(PathB), b[PathB])

\* ./data after a completed save of the snapshot
MirrorOf(b, at) ==
    [files |-> RawOf(b), index |-> <<BuildIndex(SnapshotOf(b), at)>>, tmp |-> <<>>]

PublishedCache(b, at) ==
    [posts |-> SnapshotOf(b), bySlug |-> IndexInto(EmptyMap, SnapshotOf(b)),
     lastSync |-> at, lastErr |-> Nil]

SaveInit ==
    \E b1, b2 \in Edits :
        /\ cache = PublishedCache(b2, MaxPasses)
        /\ gen = cache
        /\ mu = [writer |-> None, readers |-> {}]
        /\ th = [t \in Threads |->
                    IF t = "main" THEN NoLocals("serve")
                    ELSE [NoLocals("mkdir") EXCEPT
                             !.mdFiles = SortStrings(<<PathB, PathA>>),
                             !.i = 2,
                             !.posts = SnapshotOf(b2),
                             !.raw = RawOf(b2),
                             !.began = MaxPasses,
                             !.pre = [posts |-> SnapshotOf(b1),
                                      bySlug |-> IndexInto(EmptyMap, SnapshotOf(b1)),
                                      disk |-> MirrorOf(b1, MaxPasses - 1)],
                             !.listing = [ok |-> TRUE, tree |-> <<Blob(PathB), Blob(PathA)>>],
                             !.asked = SortStrings(<<PathB, PathA>>)]]
        /\ tick = FALSE
        /\ rd = [r \in Readers |-> IdleReader]
        /\ disk = MirrorOf(b1, MaxPasses - 1)
        /\ now = MaxPasses
        /\ good = SnapshotOf(b2)
        /\ loads = 1
        /\ saved = SnapshotOf(b1)
        /\ SlugOff
        /\ ExcerptOff
        /\ TitleOff
        /\ PathOff
        /\ OthersOff

SaveNext ==
    \/ SaveMkdir("loop")
    \/ SaveBody("loop")
    \/ SaveTmp("loop")
    \/ SaveRename("loop")
    \/ Return("loop")
    \/ Restart
    \/ StartupLoad

SaveSpec ==
    SaveInit /\ [][SaveNext]_vars

\* C35: whenever the process has been started again, also after a save
\* that stopped between its first body file and the rename of the manifest,
\* the posts loaded from the mirror are the posts of the last save that was
\* completed, each with the HTML of its own body
C35_LoadsOneSnapshot ==
    (th["main"].pc = "callSync" /\ th["main"].e = Nil) => th["main"].ps = saved

\* the slugs the manifest of a data directory lists
ListedSlugs(d) ==
    {JsonParseString(d.index[1].posts[i].slug) : i \in 1..Len(d.index[1].posts)}

\* the manifest entry a loaded post was made from
EntryOf(p) ==
    [slug |-> p.Slug, title |-> p.Title, excerpt |-> p.Excerpt,
     source_path |-> p.SourcePath]

\* a manifest entry as json.Unmarshal delivers it
ParsedEntry(it) ==
    [slug |-> JsonParseString(it.slug), title |-> JsonParseString(it.title),
     excerpt |-> JsonParseString(it.excerpt),
     source_path |-> JsonParseString(it.source_path)]

\* the manifest was read and parsed by the startup load
LoadedManifest ==
    /\ th["main"].pc = "callSync"
    /\ disk.index # <<>>
    /\ disk.index[1].whole

\* C36 as worded: the loaded posts are the entries of the manifest, one
\* post for each entry and in the order of the entries
C36_LoadsExactlyListed ==
    LoadedManifest =>
        LET its == disk.index[1].posts
            ps == th["main"].ps
        IN  /\ Len(ps) = Len(its)
            /\ \A i \in 1..Len(ps) : EntryOf(ps[i]) = ParsedEntry(its[i])

\* C36: every post loadPostsFromDisk returns was made from an entry of the
\* manifest, and a body file whose slug the manifest does not list gives
\* no post, neither in the result nor in the cache filled from it
C36_LoadsListedOnly ==
    LoadedManifest =>
        LET its == disk.index[1].posts
            ps == th["main"].ps
        IN  /\ \A i \in 1..Len(ps) :
                   \E j \in 1..Len(its) : EntryOf(ps[i]) = ParsedEntry(its[j])
            /\ Len(ps) <= Len(its)
            /\ \A s \in DOMAIN disk.files \ ListedSlugs(disk) :
                   /\ \A i \in 1..Len(ps) : ps[i].Slug # s
                   /\ \A i \in 1..Len(cache.posts) : cache.posts[i].Slug # s
                   /\ s \notin DOMAIN cache.bySlug

\* the data directory holds the body file of a slug that the manifest does
\* not list beside the body files of the slugs it lists, and the load
\* returned the listed posts
C36_Witness ==
    /\ LoadedManifest
    /\ DOMAIN disk.files \ ListedSlugs(disk) # {}
    /\ Len(th["main"].ps) = Len(disk.index[1].posts)
    /\ cache.posts = th["main"].ps

\* ---------------------------------------------------------------------
\* Two passes over one state of the remote: the same tree entries, sent in
\* two orders, and one answer of the contents endpoint for each file
\* ---------------------------------------------------------------------

\* the orders in which the entries of a tree response can be sent
OrdersOf(tree) ==
    {t \in [1..Len(tree) -> {tree[i] : i \in 1..Len(tree)}] :
        \A i, j \in 1..Len(tree) : t[i] = t[j] => i = j}

\* the files of the remote that a pass may fetch
RemotePaths ==
    {PathA, PathB, PathFooBar, PathFooDashBar}

\* one answer of the contents endpoint for each file
FetchResults ==
    {f \in [RemotePaths -> UNION {FetchOutcomes(p) : p \in RemotePaths}] :
        \A p \in RemotePaths : f[p] \in FetchOutcomes(p)}

\* the per-file loop of fetchPosts, each file answered as out says
RECURSIVE FetchAll(_, _)
FetchAll(l, out) ==
    IF l.pc = "fetchFile"
    THEN FetchAll(FetchFileResult(l, out[l.mdFiles[l.i]]), out)
    ELSE l

\* what fetchPosts returns for a tree response and what syncOnce makes the
\* slug index of it
PassOf(tree, out) ==
    LET l == FetchAll(FetchTreeResult(NoLocals("fetchTree"), [ok |-> TRUE, tree |-> tree]),
                      out)
    IN  [posts |-> l.posts, raw |-> l.raw, err |-> l.err,
         bySlug |-> IF ShouldReplace(l.err, l.posts)
                    THEN IndexInto(EmptyMap, l.posts) ELSE EmptyMap]

DetInit ==
    /\ SysInit
    /\ SlugOff
    /\ ExcerptOff
    /\ TitleOff
    /\ PathOff
    /\ PlainOff
    /\ FrOff
    /\ CmOff
    /\ \E tree \in TreeResponses : \E other \in OrdersOf(tree) : \E out \in FetchResults :
           det = [pc |-> "first", tree |-> tree, other |-> other, out |-> out]

DetFirst ==
    /\ det.pc = "first"
    /\ det' = [pc |-> "second", tree |-> det.tree, other |-> det.other, out |-> det.out,
               a |-> PassOf(det.tree, det.out)]
    /\ UNCHANGED <<sysVars, slugVars, exVars, titleVars, pathVars, plain, fr, cm>>

DetSecond ==
    /\ det.pc = "second"
    /\ det' = [pc |-> "done", tree |-> det.tree, other |-> det.other, out |-> det.out,
               a |-> det.a, b |-> PassOf(det.other, det.out)]
    /\ UNCHANGED <<sysVars, slugVars, exVars, titleVars, pathVars, plain, fr, cm>>

DetNext ==
    \/ DetFirst
    \/ DetSecond

DetSpec ==
    DetInit /\ [][DetNext]_vars

\* C37: two passes that get the same tree entries, in whatever order, and
\* the same answer for each file return the same posts in the same order,
\* the same raw-body map and the same error, and give the same slug index
C37_PassIsFunctionOfRemote ==
    det.pc = "done" => det.a = det.b

\* the two passes got the entries in different orders and each returned
\* two posts that share a slug
C37_Witness ==
    /\ det.pc = "done"
    /\ det.tree # det.other
    /\ Len(det.a.posts) = 2
    /\ Len(det.b.posts) = 2
    /\ Cardinality(DOMAIN det.a.raw) = 1
    /\ Cardinality(DOMAIN det.b.bySlug) = 1

\* ---------------------------------------------------------------------
\* The friend-link and guestbook server: data/friends.json and
\* data/guestbook.json behind one mutex
\* ---------------------------------------------------------------------

\* the goroutines net/http runs the handlers on
Visitors ==
    {"v1", "v2"}

friendsPath ==
    "friends"

guestbookPath ==
    "guestbook"

StorePaths ==
    {friendsPath, guestbookPath}

ErrRead ==
    "read error"

\* a JSON string as json.Decoder delivers it, and as string([]rune(s)) leaves it
trim(str) ==
    [i \in 1..Len(str) |-> IF str[i] = "xFF" THEN "uFFFD" ELSE str[i]]

\* the bodies of the POST requests, as sent
FriendBodies ==
    {[name |-> n, url |-> u, desc |-> <<>>] :
        n \in {<<>>, <<"a">>, <<"xFF">>}, u \in {<<>>, <<"u">>}}

GuestbookBodies ==
    {[nickname |-> n, contact |-> <<>>, content |-> c] :
        n \in {<<>>, <<"a">>}, c \in {<<>>, <<"c">>}}

NoBody ==
    [none |-> TRUE]

\* the requests: json says whether the body decodes
StoreRequests ==
    {[path |-> k, method |-> m, json |-> FALSE, body |-> NoBody] :
        k \in StorePaths, m \in {"GET", "POST", "DELETE"}}
    \cup {[path |-> friendsPath, method |-> "POST", json |-> TRUE, body |-> b] :
            b \in FriendBodies}
    \cup {[path |-> guestbookPath, method |-> "POST", json |-> TRUE, body |-> b] :
            b \in GuestbookBodies}

\* the check of the required fields, after trim
Required(req) ==
    IF req.path = friendsPath
    THEN trim(req.body.name) # <<>> /\ trim(req.body.url) # <<>>
    ELSE trim(req.body.nickname) # <<>> /\ trim(req.body.content) # <<>>

Friend(body, at) ==
    [Name |-> trim(body.name), URL |-> trim(body.url), Desc |-> trim(body.desc),
     CreatedAt |-> at]

GuestbookEntry(body, at) ==
    [Nickname |-> trim(body.nickname), Contact |-> trim(body.contact),
     Content |-> trim(body.content), CreatedAt |-> at]

EntryFor(req, at) ==
    IF req.path = friendsPath THEN Friend(req.body, at) ELSE GuestbookEntry(req.body, at)

\* json.MarshalIndent and json.Unmarshal of a list of entries
MarshalList(list) ==
    [whole |-> TRUE,
     items |-> [i \in 1..Len(list) |->
                   [f \in DOMAIN list[i] |->
                       IF f = "CreatedAt" THEN list[i][f] ELSE JsonString(list[i][f])]]]

UnmarshalList(data) ==
    [i \in 1..Len(data.items) |->
        [f \in DOMAIN data.items[i] |->
            IF f = "CreatedAt" THEN data.items[i][f]
            ELSE JsonParseString(data.items[i][f])]]

\* loadFriends and loadGuestbook: file is <<>> when the path does not exist
loadList(file, readOk) ==
    IF file = <<>> THEN [list |-> <<>>, err |-> Nil]
    ELSE IF ~readOk THEN [list |-> <<>>, err |-> ErrRead]
    ELSE IF ~file[1].whole THEN [list |-> <<>>, err |-> Nil]
    ELSE [list |-> UnmarshalList(file[1]), err |-> Nil]

loadFriends(files, readOk) ==
    loadList(files[friendsPath], readOk)

loadGuestbook(files, readOk) ==
    loadList(files[guestbookPath], readOk)

loadFor(path, files, readOk) ==
    IF path = friendsPath THEN loadFriends(files, readOk) ELSE loadGuestbook(files, readOk)

IdleVisitor ==
    [pc |-> "idle", req |-> [path |-> friendsPath, method |-> "GET", json |-> FALSE,
                             body |-> NoBody],
     list |-> <<>>, status |-> 0]

FrBoot ==
    [pc |-> "on",
     mu |-> None,
     files |-> [k \in StorePaths |-> <<>>],
     tmp |-> [k \in StorePaths |-> <<>>],
     hs |-> [v \in Visitors |-> IdleVisitor],
     accepted |-> [k \in StorePaths |-> <<>>],
     n |-> 0,
     misread |-> FALSE]

FrInit ==
    /\ SysInit
    /\ SlugOff
    /\ ExcerptOff
    /\ TitleOff
    /\ PathOff
    /\ PlainOff
    /\ DetOff
    /\ CmOff
    /\ fr = FrBoot

FrRest ==
    <<sysVars, slugVars, exVars, titleVars, pathVars, plain, det, cm>>

\* a request arrives and its handler calls mu.Lock()
FrArrive(v) ==
    /\ fr.pc = "on"
    /\ fr.hs[v].pc = "idle"
    /\ fr.n < MaxRequests
    /\ \E req \in StoreRequests :
           fr' = [fr EXCEPT !.hs[v] = [IdleVisitor EXCEPT !.pc = "lock", !.req = req],
                            !.n = fr.n + 1]
    /\ UNCHANGED FrRest

FrLock(v) ==
    /\ fr.pc = "on"
    /\ fr.hs[v].pc = "lock"
    /\ fr.mu = None
    /\ fr' = [fr EXCEPT !.mu = v, !.hs[v].pc = "handle"]
    /\ UNCHANGED FrRest

\* the handler returns with a status; the deferred mu.Unlock() runs
Answered(f, v, status) ==
    [f EXCEPT !.mu = None, !.hs[v].pc = "idle", !.hs[v].status = status]

\* case http.MethodGet
FrGet(v) ==
    /\ fr.pc = "on"
    /\ fr.hs[v].pc = "handle"
    /\ fr.hs[v].req.method = "GET"
    /\ \E readOk \in BOOLEAN :
           LET res == loadFor(fr.hs[v].req.path, fr.files, readOk)
           IN  fr' = Answered([fr EXCEPT !.hs[v].list = res.list], v,
                              IF res.err # Nil THEN 500 ELSE 200)
    /\ UNCHANGED FrRest

\* default: StatusMethodNotAllowed
FrNotAllowed(v) ==
    /\ fr.pc = "on"
    /\ fr.hs[v].pc = "handle"
    /\ fr.hs[v].req.method \notin {"GET", "POST"}
    /\ fr' = Answered(fr, v, 405)
    /\ UNCHANGED FrRest

\* the request is accepted: its body decodes and has the required fields
Valid(req) ==
    /\ req.method = "POST"
    /\ req.json
    /\ Required(req)

\* case http.MethodPost: invalid json body, or a required field is missing
FrReject(v) ==
    /\ fr.pc = "on"
    /\ fr.hs[v].pc = "handle"
    /\ fr.hs[v].req.method = "POST"
    /\ ~Valid(fr.hs[v].req)
    /\ fr' = Answered(fr, v, 400)
    /\ UNCHANGED FrRest

\* list, _ := loadFriends(); list = append(list, entry)
FrLoadIgnoringError(v, res) ==
    [fr EXCEPT !.hs[v].list = Append(res.list, EntryFor(fr.hs[v].req, fr.n)),
               !.hs[v].pc = "tmp",
               !.misread = fr.misread \/ res.err # Nil]

\* a load whose error ends the request, as in the GET case
FrLoadChecked(v, res) ==
    IF res.err # Nil
    THEN Answered(fr, v, 500)
    ELSE [fr EXCEPT !.hs[v].list = Append(res.list, EntryFor(fr.hs[v].req, fr.n)),
                    !.hs[v].pc = "tmp"]

FrLoaded(v, res) ==
    FrLoadIgnoringError(v, res)

FrLoad(v) ==
    /\ fr.pc = "on"
    /\ fr.hs[v].pc = "handle"
    /\ Valid(fr.hs[v].req)
    /\ \E readOk \in BOOLEAN :
           fr' = FrLoaded(v, loadFor(fr.hs[v].req.path, fr.files, readOk))
    /\ UNCHANGED FrRest

\* saveJSON: os.WriteFile(tmp, data, 0644)
FrWriteTmp(v) ==
    /\ fr.pc = "on"
    /\ fr.hs[v].pc = "tmp"
    /\ LET k == fr.hs[v].req.path
       IN  \E w \in WriteOutcomes :
               fr' = CASE w = "ok" ->
                            [fr EXCEPT !.tmp[k] = <<MarshalList(fr.hs[v].list)>>,
                                       !.hs[v].pc = "rename"]
                       [] w = "truncated" ->
                            Answered([fr EXCEPT !.tmp[k] = <<[whole |-> FALSE, items |-> <<>>]>>],
                                     v, 500)
                       [] OTHER -> Answered(fr, v, 500)
    /\ UNCHANGED FrRest

\* saveJSON: os.Rename(tmp, path), then the answer
FrRename(v) ==
    /\ fr.pc = "on"
    /\ fr.hs[v].pc = "rename"
    /\ LET k == fr.hs[v].req.path
       IN  \E ok \in BOOLEAN :
               fr' = IF ok
                     THEN Answered([fr EXCEPT
                                       !.files[k] = fr.tmp[k],
                                       !.tmp[k] = <<>>,
                                       !.accepted[k] =
                                           Append(fr.accepted[k],
                                                  fr.hs[v].list[Len(fr.hs[v].list)])],
                                   v, 200)
                     ELSE Answered(fr, v, 500)
    /\ UNCHANGED FrRest

FrNext ==
    \E v \in Visitors :
        \/ FrArrive(v)
        \/ FrLock(v)
        \/ FrGet(v)
        \/ FrNotAllowed(v)
        \/ FrReject(v)
        \/ FrLoad(v)
        \/ FrWriteTmp(v)
        \/ FrRename(v)

FrSpec ==
    FrInit /\ [][FrNext]_vars

\* the entries a file holds
StoredList(k) ==
    loadList(fr.files[k], TRUE).list

\* C38: the entries of each file are the entries of the accepted requests,
\* each once and in the order of acceptance
C38_AcceptedEntriesKept ==
    \A k \in StorePaths : StoredList(k) = fr.accepted[k]

\* the same as long as no read of a file has failed, and the handlers
\* between Lock and the answer hold the mutex, one at a time
C38_KeptWhileReadable ==
    /\ ~fr.misread => \A k \in StorePaths : StoredList(k) = fr.accepted[k]
    /\ \A v \in Visitors : fr.hs[v].pc \in {"handle", "tmp", "rename"} <=> fr.mu = v

\* ---------------------------------------------------------------------
\* The comment store of the file-based blog: ./data/comments/<slug>.json,
\* read and written by the handlers with no lock
\* ---------------------------------------------------------------------

\* the goroutines net/http runs handlePost on
Commenters ==
    {"c1", "c2"}

\* the slugs of postsBySlug
CommentSlugs ==
    {"p", "q"}

\* strings.TrimSpace on the symbols of the model
TrimSpaceOf(str) ==
    Trim(str, {" ", "LF"})

\* the name given to a comment without author
Anonymous ==
    <<"anon">>

\* POST /post/{slug}/comment: the form values and the github_user cookie
CommentForms ==
    {[slug |-> g, author |-> a, content |-> c, user |-> u] :
        g \in CommentSlugs, a \in {<<>>, <<"a">>}, c \in {<<" ">>, <<"c">>},
        u \in {<<>>, <<"g">>}}

\* the Comment that handlePost builds
Comment(form, at) ==
    [Author |-> IF TrimSpaceOf(form.user) # <<>> THEN TrimSpaceOf(form.user)
                ELSE IF TrimSpaceOf(form.author) = <<>> THEN Anonymous
                ELSE TrimSpaceOf(form.author),
     Content |-> TrimSpaceOf(form.content),
     CreatedAt |-> at,
     GitHubUser |-> TrimSpaceOf(form.user)]

\* loadComments: file is <<>> when the path does not exist; a file that is
\* being written holds no JSON value
loadComments(file, readOk) ==
    IF file = <<>> THEN [cs |-> <<>>, err |-> Nil]
    ELSE IF ~readOk THEN [cs |-> <<>>, err |-> ErrRead]
    ELSE IF ~file[1].whole THEN [cs |-> <<>>, err |-> ErrBadIndex]
    ELSE [cs |-> UnmarshalList(file[1]), err |-> Nil]

IdleCommenter ==
    [pc |-> "idle", form |-> [slug |-> "p", author |-> <<>>, content |-> <<>>, user |-> <<>>],
     c |-> Comment([slug |-> "p", author |-> <<>>, content |-> <<>>, user |-> <<>>], 0),
     cs |-> <<>>, redirect |-> "none"]

CmBoot ==
    [pc |-> "on",
     files |-> [g \in CommentSlugs |-> <<>>],
     hs |-> [v \in Commenters |-> IdleCommenter],
     answered |-> [g \in CommentSlugs |-> <<>>],
     n |-> 0,
     misread |-> FALSE]

CmInit ==
    /\ SysInit
    /\ SlugOff
    /\ ExcerptOff
    /\ TitleOff
    /\ PathOff
    /\ PlainOff
    /\ DetOff
    /\ FrOff
    /\ cm = CmBoot

CmRest ==
    <<sysVars, slugVars, exVars, titleVars, pathVars, plain, det, fr>>

\* handlePost up to the call of appendComment
CmSubmit(v) ==
    /\ cm.pc = "on"
    /\ cm.hs[v].pc = "idle"
    /\ cm.n < MaxComments
    /\ \E form \in CommentForms :
           cm' = [cm EXCEPT
                     !.n = cm.n + 1,
                     !.hs[v] = IF TrimSpaceOf(form.content) = <<>>
                               THEN [IdleCommenter EXCEPT !.form = form,
                                                          !.redirect = "err=empty"]
                               ELSE [IdleCommenter EXCEPT !.form = form, !.pc = "load",
                                                          !.c = Comment(form, cm.n + 1)]]
    /\ UNCHANGED CmRest

\* appendComment: cs, _ := loadComments(slug); cs = append(cs, c)
CmLoad(v) ==
    /\ cm.pc = "on"
    /\ cm.hs[v].pc = "load"
    /\ \E readOk \in BOOLEAN :
           cm' = [cm EXCEPT
                     !.hs[v].cs = Append(loadComments(cm.files[cm.hs[v].form.slug], readOk).cs,
                                         cm.hs[v].c),
                     !.hs[v].pc = "mkdir",
                     !.misread = cm.misread \/ ~readOk]
    /\ UNCHANGED CmRest

\* appendComment: os.MkdirAll
CmMkdir(v) ==
    /\ cm.pc = "on"
    /\ cm.hs[v].pc = "mkdir"
    /\ \E ok \in BOOLEAN :
           cm' = IF ok THEN [cm EXCEPT !.hs[v].pc = "open"]
                 ELSE [cm EXCEPT !.hs[v].pc = "idle", !.hs[v].redirect = "err=server"]
    /\ UNCHANGED CmRest

\* os.WriteFile opens the file with O_TRUNC
CmOpen(v) ==
    /\ cm.pc = "on"
    /\ cm.hs[v].pc = "open"
    /\ \E ok \in BOOLEAN :
           cm' = IF ok
                 THEN [cm EXCEPT !.files[cm.hs[v].form.slug] =
                                     <<[whole |-> FALSE, items |-> <<>>]>>,
                                 !.hs[v].pc = "write"]
                 ELSE [cm EXCEPT !.hs[v].pc = "idle", !.hs[v].redirect = "err=server"]
    /\ UNCHANGED CmRest

\* os.WriteFile writes the data and closes the file; handlePost redirects
CmWrite(v) ==
    /\ cm.pc = "on"
    /\ cm.hs[v].pc = "write"
    /\ LET g == cm.hs[v].form.slug
       IN  \E ok \in BOOLEAN :
               cm' = IF ok
                     THEN [cm EXCEPT !.files[g] = <<MarshalList(cm.hs[v].cs)>>,
                                     !.answered[g] = Append(cm.answered[g], cm.hs[v].c),
                                     !.hs[v].pc = "idle",
                                     !.hs[v].redirect = "ok"]
                     ELSE [cm EXCEPT !.hs[v].pc = "idle", !.hs[v].redirect = "err=server"]
    /\ UNCHANGED CmRest

CmNext ==
    \E v \in Commenters :
        \/ CmSubmit(v)
        \/ CmLoad(v)
        \/ CmMkdir(v)
        \/ CmOpen(v)
        \/ CmWrite(v)

CmSpec ==
    CmInit /\ [][CmNext]_vars

\* the comments the file of a slug holds
StoredComments(g) ==
    loadComments(cm.files[g], TRUE).cs

\* C39: once the submissions have been answered, each comment that was
\* answered with the redirect to the post is in the file of its slug
C39_AnsweredCommentsKept ==
    (\A v \in Commenters : cm.hs[v].pc = "idle") =>
        \A g \in CommentSlugs :
            \A i \in 1..Len(cm.answered[g]) :
                \E j \in 1..Len(StoredComments(g)) :
                    StoredComments(g)[j] = cm.answered[g][i]

\* two submissions to one slug were both answered with the redirect to the
\* post, every read of the file returned what the file held, and the file
\* holds one comment
C39_LostUpdate ==
    /\ \A v \in Commenters : cm.hs[v].pc = "idle"
    /\ ~cm.misread
    /\ \E g \in CommentSlugs :
           /\ Len(cm.answered[g]) = 2
           /\ Len(StoredComments(g)) = 1

====
